---- MODULE Spec2Model ----
(***************************************************************************)
(* A model of the abismal read mapper (src/src/abismal.cpp,                *)
(* src/src/AbismalAlign.hpp and the 4-bit bisulfite encoding tables).      *)
(*                                                                         *)
(* The module holds several specifications over one set of variables:      *)
(*   Spec     the life of one se_result slot in map_single_ended           *)
(*   SpecEnc  the read encoding tables and the mismatch predicate          *)
(*   SpecValid the validity thresholds of se_element                       *)
(*   SpecAln  AbismalAlign::align on bounded queries and genomes           *)
(*   SpecPe   one paired fragment: best_pair, select_output, stats         *)
(* Each specification leaves the variables of the others at their idle     *)
(* values.                                                                 *)
(***************************************************************************)
EXTENDS Integers, Sequences, FiniteSets, Bags, TLC

VARIABLES
  \* ---- single-end slot (Spec)
  pc,         \* position in the per-read cycle of map_single_ended
  res,        \* the se_result slot res[i]
  read,       \* the read reads[i] as character codes; <<>> if skipped
  cigar,      \* cigar[i]
  allow_ambig,\* the -a option
  offered,    \* candidates handed to res.update since the last reset
  ret,        \* what format_se returned for this read
  written,    \* the records format_se appended to out for this read
  se_stats,   \* the se_map_stats counters
  nreads,     \* reads taken so far
  \* ---- encoding (SpecEnc)
  enc,
  \* ---- validity thresholds (SpecValid)
  vt,
  \* ---- aligner (SpecAln)
  aln,
  \* ---- paired fragment (SpecPe)
  pe,
  \* ---- workers sharing the read stream and the output (SpecMt)
  mt,
  \* ---- select_max_candidates (SpecMaxCand)
  mc,
  \* ---- pe_candidates as a heap (SpecHeap)
  hp,
  \* ---- prep_for_seeds and full_compare (SpecCmp)
  fcmp,
  \* ---- find_candidates (SpecFind)
  fc,
  \* ---- se_result with the candidates offered so far (SpecTie)
  tie,
  \* ---- check_hits over the hits of one seed (SpecHits)
  ch

seVars == <<pc, res, read, cigar, allow_ambig, offered, ret, written, se_stats, nreads>>
vars == <<pc, res, read, cigar, allow_ambig, offered, ret, written, se_stats, nreads,
          enc, vt, aln, pe, mt, mc, hp, fcmp, fc, tie, ch>>
seedVars == <<mt, mc, hp, fcmp, fc, tie, ch>>

(***************************************************************************)
(* Bounds of the model.                                                    *)
(***************************************************************************)
MaxPos == 2        \* candidate positions offered to update are 0..MaxPos
MaxReads == 2      \* reads that pass through one se_result slot
MaxLen == 24       \* read lengths of the threshold specification are 0..MaxLen
MaxDiffs == 11     \* diffs of the threshold specification are 0..MaxDiffs
MaxQLen == 5       \* queries of the aligner specification have 1..MaxQLen bases
AlnGenomeLen == 7  \* size of the genomes of the aligner specification
MaxFrags == 1      \* fragments that pass through one slot of map_paired_ended

(***************************************************************************)
(* Integer helpers.                                                        *)
(***************************************************************************)
Min(a, b) == IF a < b THEN a ELSE b
Max(a, b) == IF a > b THEN a ELSE b

\* static_cast<score_t>(x): score_t is int16_t (abismal.cpp:55)
ToScore(x) == ((x + 32768) % 65536) - 32768

\* numeric_limits<score_t>::max()
ScoreMax == 32767

(***************************************************************************)
(* Flags.  A flags_t value is modelled as the set of the flag bits set.    *)
(***************************************************************************)
\* get_strand_code(strand, conv)
get_strand_code(strand, conv) ==
  (IF strand = "-" THEN {"read_rc"} ELSE {}) \cup
  (IF conv = "a_rich" THEN {"read_is_a_rich"} ELSE {})

StrandCodes == { get_strand_code(s, c) : s \in {"+", "-"}, c \in {"t_rich", "a_rich"} }

(***************************************************************************)
(* se_element                                                              *)
(***************************************************************************)
\* se_element(): pos(0), diffs(0), flags(0)
se_element_new == [pos |-> 0, diffs |-> 0, flags |-> {}]

se_element_make(p, d, f) == [pos |-> p, diffs |-> d, flags |-> f]

\* static_cast<score_t>(readlen * invalid_hit_frac), invalid_hit_frac = 0.4
invalid_hit_threshold(readlen) == ToScore((readlen * 4) \div 10)

\* static_cast<score_t>(valid_frac * readlen), valid_frac = 0.1
valid_threshold(readlen) == ToScore(readlen \div 10)

\* a plausible slip: the threshold itself taken as a valid hit
valid_hit_le(e, readlen) == e.diffs <= invalid_hit_threshold(readlen)

\* se_element::valid_hit: strictly below the threshold
valid_hit(e, readlen) == e.diffs < invalid_hit_threshold(readlen)

valid(e, readlen) == valid_hit(e, readlen) /\ e.diffs <= valid_threshold(readlen)

\* se_element::reset: diffs and pos are set, flags are left as they were
se_element_reset(e, readlen) ==
  [e EXCEPT !.diffs = invalid_hit_threshold(readlen), !.pos = 0]

is_better_than(a, b) == a.diffs < b.diffs

is_equal_to(a, b) == (a.diffs = b.diffs) /\ (a.pos # b.pos)

rc(e) == "read_rc" \in e.flags

elem_is_a_rich(e) == "read_is_a_rich" \in e.flags

(***************************************************************************)
(* se_result                                                               *)
(***************************************************************************)
se_result_new == [best |-> se_element_new, second_best |-> se_element_new]

\* a plausible slip: the new second best is never promoted
se_result_update_noswap(r, p, d, s) ==
  IF p = r.best.pos /\ s = r.best.flags THEN r
  ELSE LET cand == se_element_make(p, d, s) IN
       IF is_better_than(cand, r.second_best)
         THEN [r EXCEPT !.second_best = cand]
         ELSE r

\* a plausible slip: no test for a second copy of the best hit
se_result_update_nodedup(r, p, d, s) ==
  LET cand == se_element_make(p, d, s) IN
  IF is_better_than(cand, r.second_best)
    THEN IF is_better_than(cand, r.best)
           THEN [best |-> cand, second_best |-> r.best]
           ELSE [r EXCEPT !.second_best = cand]
    ELSE r

se_result_update(r, p, d, s) ==
  IF p = r.best.pos /\ s = r.best.flags THEN r
  ELSE LET cand == se_element_make(p, d, s) IN
       IF is_better_than(cand, r.second_best)
         THEN IF is_better_than(cand, r.best)
                THEN [best |-> cand, second_best |-> r.best]
                ELSE [r EXCEPT !.second_best = cand]
         ELSE r

\* returns <<result, swapped>>
sort_candidates(r) ==
  IF is_better_than(r.second_best, r.best)
    THEN <<[best |-> r.second_best, second_best |-> r.best], TRUE>>
    ELSE <<r, FALSE>>

se_result_valid(r, readlen) == valid(r.best, readlen)

se_result_valid_hit(r, readlen) == valid_hit(r.best, readlen)

se_result_ambig(r) == is_equal_to(r.best, r.second_best)

sure_ambig(r, seed_number) == se_result_ambig(r) /\ r.second_best.diffs <= seed_number

se_result_reset(r, readlen) ==
  [best |-> se_element_reset(r.best, readlen),
   second_best |-> se_element_reset(r.second_best, readlen)]

get_cutoff(r) == r.second_best.diffs + 1

(***************************************************************************)
(* Read encoding (dna_four_bit_bisulfite) and the mismatch predicate.      *)
(***************************************************************************)
\* a & b on 8-bit values
BitAnd(a, b) ==
  LET bit(x, i) == (x \div (2^i)) % 2
      term(i) == (2^i) * bit(a, i) * bit(b, i)
  IN term(0) + term(1) + term(2) + term(3) + term(4) + term(5) + term(6) + term(7)

\* the tables are indexed by the character code; a TLA+ tuple starts at 1
encode_base_t_rich ==
  <<
  0, 0, 0, 0, 0, 0, 0, 0, 0, 0, 0, 0, 0, 0, 0, 0,
  0, 0, 0, 0, 0, 0, 0, 0, 0, 0, 0, 0, 0, 0, 0, 0,
  0, 0, 0, 0, 0, 0, 0, 0, 0, 0, 0, 0, 0, 0, 0, 0,
  0, 0, 0, 0, 0, 0, 0, 0, 0, 0, 0, 0, 0, 0, 0, 0,
  0, 1, 0, 2, 0, 0, 0, 4, 0, 0, 0, 0, 0, 0, 0, 0,
  0, 0, 0, 0, 10, 0, 0, 0, 0, 0, 0, 0, 0, 0, 0, 0,
  0, 1, 0, 2, 0, 0, 0, 4, 0, 0, 0, 0, 0, 0, 0, 0,
  0, 0, 0, 0, 10, 0, 0, 0, 0, 0, 0, 0, 0, 0, 0, 0,
  0, 0, 0, 0, 0, 0, 0, 0, 0, 0, 0, 0, 0, 0, 0, 0,
  0, 0, 0, 0, 0, 0, 0, 0, 0, 0, 0, 0, 0, 0, 0, 0,
  0, 0, 0, 0, 0, 0, 0, 0, 0, 0, 0, 0, 0, 0, 0, 0,
  0, 0, 0, 0, 0, 0, 0, 0, 0, 0, 0, 0, 0, 0, 0, 0,
  0, 0, 0, 0, 0, 0, 0, 0, 0, 0, 0, 0, 0, 0, 0, 0,
  0, 0, 0, 0, 0, 0, 0, 0, 0, 0, 0, 0, 0, 0, 0, 0,
  0, 0, 0, 0, 0, 0, 0, 0, 0, 0, 0, 0, 0, 0, 0, 0,
  0, 0, 0, 0, 0, 0, 0, 0, 0, 0, 0, 0, 0, 0, 0, 0
  >>

encode_base_a_rich ==
  <<
  0, 0, 0, 0, 0, 0, 0, 0, 0, 0, 0, 0, 0, 0, 0, 0,
  0, 0, 0, 0, 0, 0, 0, 0, 0, 0, 0, 0, 0, 0, 0, 0,
  0, 0, 0, 0, 0, 0, 0, 0, 0, 0, 0, 0, 0, 0, 0, 0,
  0, 0, 0, 0, 0, 0, 0, 0, 0, 0, 0, 0, 0, 0, 0, 0,
  0, 5, 0, 2, 0, 0, 0, 4, 0, 0, 0, 0, 0, 0, 0, 0,
  0, 0, 0, 0, 8, 0, 0, 0, 0, 0, 0, 0, 0, 0, 0, 0,
  0, 5, 0, 2, 0, 0, 0, 4, 0, 0, 0, 0, 0, 0, 0, 0,
  0, 0, 0, 0, 8, 0, 0, 0, 0, 0, 0, 0, 0, 0, 0, 0,
  0, 0, 0, 0, 0, 0, 0, 0, 0, 0, 0, 0, 0, 0, 0, 0,
  0, 0, 0, 0, 0, 0, 0, 0, 0, 0, 0, 0, 0, 0, 0, 0,
  0, 0, 0, 0, 0, 0, 0, 0, 0, 0, 0, 0, 0, 0, 0, 0,
  0, 0, 0, 0, 0, 0, 0, 0, 0, 0, 0, 0, 0, 0, 0, 0,
  0, 0, 0, 0, 0, 0, 0, 0, 0, 0, 0, 0, 0, 0, 0, 0,
  0, 0, 0, 0, 0, 0, 0, 0, 0, 0, 0, 0, 0, 0, 0, 0,
  0, 0, 0, 0, 0, 0, 0, 0, 0, 0, 0, 0, 0, 0, 0, 0,
  0, 0, 0, 0, 0, 0, 0, 0, 0, 0, 0, 0, 0, 0, 0, 0
  >>

\* a plausible slip: T encoded as in the reference (1000)
encode_t_rich_plainT(c) == IF encode_base_t_rich[c + 1] = 10 THEN 8 ELSE encode_base_t_rich[c + 1]

encode_t_rich(c) == encode_base_t_rich[c + 1]

encode_a_rich(c) == encode_base_a_rich[c + 1]

\* prep_read<convert_a_to_g> on one character
prep_base(conv, c) == IF conv = "a_rich" THEN encode_a_rich(c) ELSE encode_t_rich(c)

\* the reference masks of the 4-bit genome: A=0001, C=0010, G=0100, T=1000
encode_ref(b) == CASE b = "A" -> 1 [] b = "C" -> 2 [] b = "G" -> 4 [] b = "T" -> 8 [] OTHER -> 0

\* true for a mismatch
the_comp(a, b) == BitAnd(a, b) = 0

(***************************************************************************)
(* The banded local aligner, AbismalAlign.                                 *)
(* The table and the traceback are functions on cell indices; a row has    *)
(* bw cells.  CIGARs are run-length sequences of <<count, op>>.            *)
(***************************************************************************)
max_off_diag == 2
bw == 2 * max_off_diag + 1

\* simple_local_alignment: match, mismatch, indel of the 1 -1 -1 scheme
score_match == 1
score_mismatch == 0 - 1
indel == 0 - 1

mismatch_score(q_base, t_base) ==
  IF the_comp(q_base, t_base) THEN score_mismatch ELSE score_match

n_cells(q_sz_max) == (q_sz_max + bw) * bw

RECURSIVE from_diag(_, _, _, _, _, _, _)
from_diag(T, next_row, next_row_end, cur_row, query, qidx, ref_base) ==
  IF next_row = next_row_end THEN T
  ELSE IF mismatch_score(query[qidx + 1], ref_base) + T.table[cur_row] > T.table[next_row]
    THEN from_diag([table |-> [T.table EXCEPT ![next_row] =
                                 mismatch_score(query[qidx + 1], ref_base) + T.table[cur_row]],
                    traceback |-> [T.traceback EXCEPT ![next_row] = "M"]],
                   next_row + 1, next_row_end, cur_row + 1, query, qidx + 1, ref_base)
    ELSE from_diag(T, next_row + 1, next_row_end, cur_row + 1, query, qidx + 1, ref_base)

RECURSIVE from_above(_, _, _, _)
from_above(T, above_itr, above_end, target) ==
  IF above_itr = above_end THEN T
  ELSE IF T.table[above_itr] + indel > T.table[target]
    THEN from_above([table |-> [T.table EXCEPT ![target] = T.table[above_itr] + indel],
                     traceback |-> [T.traceback EXCEPT ![target] = "D"]],
                    above_itr + 1, above_end, target + 1)
    ELSE from_above(T, above_itr + 1, above_end, target + 1)

RECURSIVE from_left(_, _, _, _)
from_left(T, left_itr, target, target_end) ==
  IF target = target_end THEN T
  ELSE IF T.table[left_itr] + indel > T.table[target]
    THEN from_left([table |-> [T.table EXCEPT ![target] = T.table[left_itr] + indel],
                    traceback |-> [T.traceback EXCEPT ![target] = "I"]],
                   left_itr + 1, target + 1, target_end)
    ELSE from_left(T, left_itr + 1, target + 1, target_end)

\* row i lies inside the table vector; q_sz <= q_sz_max keeps every row there
row_in_table(T, i) == (i + 1) * bw <= Cardinality(DOMAIN T.table)

\* the row loop of align, rows i .. t_lim - 1
RECURSIVE fill_rows(_, _, _, _, _, _)
fill_rows(T, i, t_lim, t_beg, query, genome) ==
  IF i >= t_lim \/ ~row_in_table(T, i) THEN T
  ELSE LET t_shift == Len(query) + bw
           left == IF i < bw THEN bw - i ELSE 0
           right == Min(bw, t_shift - i)
           prev == (i - 1) * bw
           cur == i * bw
           T1 == from_diag(T, cur + left, cur + right, prev + left, query,
                           IF i > bw THEN i - bw ELSE 0, genome[t_beg + i])
           T2 == from_above(T1, prev + left + 1, prev + right, cur + left)
           T3 == from_left(T2, cur + left, cur + left + 1, cur + right)
       IN fill_rows(T3, i + 1, t_lim, t_beg, query, genome)

\* std::max_element: the first cell holding the largest score
get_best_score(table, n) ==
  LET best == CHOOSE c \in 0..(n - 1) :
                /\ \A d \in 0..(n - 1) : table[d] <= table[c]
                /\ \A d \in 0..(c - 1) : table[d] < table[c]
  IN [score |-> table[best], best_i |-> best \div bw, best_j |-> best % bw]

\* get_traceback: the arrows from (the_row, the_col) back to a cell of score 0,
\* in the order they are written (last operation first).  oob is set when a
\* cell outside the table would be read.
RECURSIVE get_traceback(_, _, _, _, _)
get_traceback(T, n, the_row, the_col, ops) ==
  IF the_row < 0 \/ the_col < 0 \/ the_row * bw + the_col >= n
    THEN [ops |-> ops, the_row |-> the_row, the_col |-> the_col, oob |-> TRUE]
  ELSE IF T.table[the_row * bw + the_col] <= 0
    THEN [ops |-> ops, the_row |-> the_row, the_col |-> the_col, oob |-> FALSE]
  ELSE LET the_arrow == T.traceback[the_row * bw + the_col] IN
       IF the_arrow = "D"
         THEN get_traceback(T, n, the_row - 1, the_col + 1, Append(ops, the_arrow))
       ELSE IF the_arrow = "I"
         THEN get_traceback(T, n, the_row, the_col - 1, Append(ops, the_arrow))
       ELSE get_traceback(T, n, the_row - 1, the_col, Append(ops, the_arrow))

Reverse(s) == [k \in 1..Len(s) |-> s[Len(s) + 1 - k]]

\* compress_cigar: run-length encoding of an uncompressed CIGAR
RECURSIVE compress_cigar(_)
compress_cigar(u) ==
  IF u = <<>> THEN <<>>
  ELSE LET rest == compress_cigar(Tail(u)) IN
       IF rest # <<>> /\ rest[1][2] = u[1]
         THEN <<<<rest[1][1] + 1, u[1]>>>> \o Tail(rest)
         ELSE <<<<1, u[1]>>>> \o rest

\* cigar_rseq_ops: the operations that consume the reference
RECURSIVE cigar_rseq_ops(_)
cigar_rseq_ops(cig) ==
  IF cig = <<>> THEN 0
  ELSE (IF cig[1][2] \in {"M", "D", "N", "=", "X"} THEN cig[1][1] ELSE 0)
       + cigar_rseq_ops(Tail(cig))

\* to_string(n) + "M"
cigar_all_match(n) == <<<<n, "M">>>>

\* a plausible slip: the leading soft clip is not counted
soft_clip_top_none(the_row, the_col) == 0

soft_clip_top_of(the_row, the_col) == (the_row + the_col) - (bw - 1)

\* AbismalAlign::align(qseq, t_pos, len, cigar): the returned score and the
\* three values written through the references.  genome is the 4-bit target
\* (position p is genome[p + 1]) and t_sz its size.
align(query, t_pos, genome, t_sz, q_sz_max) ==
  LET n == n_cells(q_sz_max)
      q_sz == Len(query)
      t_beg == IF t_pos > (bw - 1) \div 2 THEN t_pos - (bw - 1) \div 2 ELSE 0
      t_shift == q_sz + bw
      t_lim == Min(t_shift, t_sz - t_beg)
      T0 == [table |-> [c \in 0..(n - 1) |-> 0], traceback |-> [c \in 0..(n - 1) |-> " "]]
      \* lines 229-236: the scratch is reversed and compressed
      returned(b, tb, soft_clip_bottom, soft_clip_top, ucigar) ==
        [score |-> b.score,
         t_pos |-> t_beg + tb.the_row,
         len |-> q_sz - soft_clip_bottom - soft_clip_top,
         ucigar |-> ucigar,
         cigar |-> compress_cigar(ucigar),
         oob |-> tb.oob]
      \* lines 216-227: the soft clips around the operations of the traceback
      clipped(b, tb, soft_clip_bottom, soft_clip_top) ==
        returned(b, tb, soft_clip_bottom, soft_clip_top,
                 Reverse([k \in 1..soft_clip_bottom |-> "S"] \o tb.ops
                           \o [k \in 1..soft_clip_top |-> "S"]))
      traced(b, tb) ==
        clipped(b, tb, (q_sz + (bw - 1)) - (b.best_i + b.best_j),
                soft_clip_top_of(tb.the_row, tb.the_col))
      \* lines 212-221: the best cell b of the filled table T, then the traceback
      located(T, b) == traced(b, get_traceback(T, n, b.best_i, b.best_j, <<>>))
      filled(T) == located(T, get_best_score(T.table, n))
  IN filled(fill_rows(T0, 1, t_lim, t_beg, query, genome))

(***************************************************************************)
(* Reads, reverse complement, the genome and the chromosome table of the   *)
(* single-end specification.                                               *)
(***************************************************************************)
\* character codes
chA == 65
chC == 67
chG == 71
chT == 84
chN == 78

\* revcomp: the complement of each character, in reverse order
complement(c) ==
  CASE c = chA -> chT [] c = chT -> chA [] c = chC -> chG [] c = chG -> chC [] OTHER -> chN

revcomp(r) == [k \in 1..Len(r) |-> complement(r[Len(r) + 1 - k])]

\* prep_read<convert_a_to_g>(r, pread)
prep_read(convert_a_to_g, r) ==
  [k \in 1..Len(r) |-> IF convert_a_to_g THEN encode_a_rich(r[k]) ELSE encode_t_rich(r[k])]

\* the 4-bit genome of the index; position p is Genome[p + 1]
Genome ==
  [k \in 1..16 |-> encode_ref(<<"A", "C", "G", "T", "A", "C", "C", "G", "T", "A", "A",
                                "C", "G", "N", "N", "N">>[k])]

\* ChromLookup::starts: chromosome c covers [starts[c + 1], starts[c + 2])
ChromStarts == <<0, 6, 16>>

\* ChromLookup::get_chrom_idx_and_offset(pos, readlen, chrom_idx, offset)
get_chrom_idx_and_offset(starts, p, ref_ops) ==
  LET below == {c \in 1..Len(starts) : starts[c] <= p} IN
  IF below = {} \/ Cardinality(below) = Len(starts)
    THEN [ok |-> FALSE, chrom_idx |-> 0, offset |-> 0]
    ELSE LET c == Cardinality(below) IN
         [ok |-> p + ref_ops <= starts[c + 1], chrom_idx |-> c - 1, offset |-> p - starts[c]]

\* chrom_and_posn(cl, cig, p, r_p, r_e, r_chr)
chrom_and_posn(starts, cig, p) ==
  LET ref_ops == cigar_rseq_ops(cig)
      l == get_chrom_idx_and_offset(starts, p, ref_ops)
  IN [ok |-> l.ok, r_p |-> l.offset, r_e |-> l.offset + ref_ops, r_chr |-> l.chrom_idx]

(***************************************************************************)
(* edit_distance, align_read, align_se_candidates                          *)
(***************************************************************************)
\* se_element::min_aligned_length (= ReadLoader::min_read_length, lines 115 and
\* 172), a static of the program.  The reads of the model have five bases or
\* none, so the minimum is scaled down with them: it is two bases less than the
\* read, and in the paired-end specification also the length of the read
\* itself, the case of a read that is just long enough not to be skipped
MinLengthBelowReads == 3
MinLengthOfReads == 5
min_aligned_length == IF pe # <<>> THEN pe[1].min_read_length ELSE MinLengthBelowReads

\* a plausible slip: the deletions are left out of the edit distance
count_deletions_none(cig) == 0

RECURSIVE count_deletions(_)
count_deletions(cig) ==
  IF cig = <<>> THEN 0
  ELSE (IF cig[1][2] = "D" THEN cig[1][1] ELSE 0) + count_deletions(Tail(cig))

\* C++ integer division truncates toward zero
CDiv(a, b) == IF a >= 0 THEN a \div b ELSE 0 - ((0 - a) \div b)

edit_distance(aln_score, len, cig) ==
  IF len < min_aligned_length THEN ScoreMax
  ELSE ToScore(CDiv(ToScore(len) - aln_score + count_deletions(cig), 2))

\* align_read(res, cigar, pread, aln) of best_pair: returns the element and the
\* cigar; cig_in is the cigar buffer as it was
align_read_pe(e, cig_in, pread, genome, q_sz_max) ==
  LET aligned(a) ==
        [e |-> [e EXCEPT !.pos = a.t_pos, !.diffs = edit_distance(a.score, a.len, a.cigar)],
         cigar |-> a.cigar]
  IN IF valid(e, Len(pread)) THEN [e |-> e, cigar |-> cigar_all_match(Len(pread))]
     ELSE IF e.diffs < ToScore(Len(pread))
       THEN aligned(align(pread, e.pos, genome, Len(genome), q_sz_max))
       ELSE [e |-> e, cigar |-> cigar_all_match(Len(pread))]

\* the encoding align_read(res, cigar, read, pread, aln) gives the read
reencode(e, r) ==
  IF rc(e) THEN (IF elem_is_a_rich(e) THEN prep_read(FALSE, revcomp(r))
                                      ELSE prep_read(TRUE, revcomp(r)))
           ELSE (IF elem_is_a_rich(e) THEN prep_read(TRUE, r)
                                      ELSE prep_read(FALSE, r))

\* align_read(res, cigar, read, pread, aln) of align_se_candidates; pread is
\* the scratch buffer as the caller left it
align_read_se(e, r, pread, genome, q_sz_max) ==
  LET aligned(q, a) ==
        [e |-> [e EXCEPT !.pos = a.t_pos, !.diffs = edit_distance(a.score, a.len, a.cigar)],
         cigar |-> a.cigar, pread |-> q]
      reencoded(q) == aligned(q, align(q, e.pos, genome, Len(genome), q_sz_max))
  IN IF valid(e, Len(r)) THEN [e |-> e, cigar |-> cigar_all_match(Len(r)), pread |-> pread]
     ELSE IF e.diffs < ToScore(Len(r))
       THEN reencoded(reencode(e, r))
       ELSE [e |-> e, cigar |-> cigar_all_match(Len(pread)), pread |-> pread]

\* align_se_candidates(res, cigar, read, pread, aln): the result, the cigar
\* and the scratch buffer pread as the call leaves them
align_se_candidates(r, cig, rd, pread, genome, q_sz_max) ==
  LET \* lines 901-902: the cigar of the second best is kept if the two swap
      both(a1, a2, sorted) ==
        [res |-> sorted[1], cigar |-> IF sorted[2] THEN a2.cigar ELSE a1.cigar,
         pread |-> a2.pread]
      second(a1, a2) ==
        both(a1, a2, sort_candidates([best |-> a1.e, second_best |-> a2.e]))
      first(a1) ==
        IF valid_hit(r.second_best, Len(rd))
          THEN second(a1, align_read_se(r.second_best, rd, a1.pread, genome, q_sz_max))
          ELSE [res |-> [r EXCEPT !.best = a1.e], cigar |-> a1.cigar, pread |-> a1.pread]
  IN IF valid_hit(r.best, Len(rd))
       THEN first(align_read_se(r.best, rd, pread, genome, q_sz_max))
       ELSE [res |-> r, cigar |-> cig, pread |-> pread]

(***************************************************************************)
(* format_se and se_map_stats                                              *)
(***************************************************************************)
\* the sam_rec written: flags, chromosome, 1-based position, cigar, tags
sam_rec_se(s, ambig_flag, chrom_idx, ref_s, cig) ==
  [flags |-> (IF rc(s) THEN {"read_rc"} ELSE {}) \cup
             (IF ambig_flag THEN {"secondary_aln"} ELSE {}),
   rname |-> chrom_idx, pos |-> ref_s + 1, cigar |-> cig,
   NM |-> s.diffs, CV |-> IF elem_is_a_rich(s) THEN "A" ELSE "T"]

\* a plausible slip: an ambiguous result is written although allow_ambig is off
format_se_noambig(allow, r, starts, readlen, cig) ==
  LET s == r.best
      l == chrom_and_posn(starts, cig, s.pos)
  IN IF ~valid(s, readlen) \/ ~l.ok
       THEN [ret |-> "map_unmapped", out |-> <<>>]
       ELSE [ret |-> IF se_result_ambig(r) THEN "map_ambig" ELSE "map_unique",
             out |-> <<sam_rec_se(s, allow /\ se_result_ambig(r), l.r_chr, l.r_p, cig)>>]

\* format_se(allow_ambig, res, cl, read, read_name, cigar, out): the value
\* returned and the records appended to out
format_se(allow, r, starts, readlen, cig) ==
  LET ambig == se_result_ambig(r) IN
  IF ~allow /\ ambig THEN [ret |-> "map_ambig", out |-> <<>>]
  ELSE LET s == r.best
           l == chrom_and_posn(starts, cig, s.pos)
       IN IF ~valid(s, readlen) \/ ~l.ok
            THEN [ret |-> "map_unmapped", out |-> <<>>]
            ELSE [ret |-> IF ambig THEN "map_ambig" ELSE "map_unique",
                  out |-> <<sam_rec_se(s, allow /\ se_result_ambig(r), l.r_chr, l.r_p, cig)>>]

se_map_stats_new ==
  [tot_rds |-> 0, uniq_rds |-> 0, ambig_rds |-> 0, unmapped_rds |-> 0, skipped_rds |-> 0]

\* a plausible slip: a skipped read is counted as skipped only
se_map_stats_update_skipped_apart(st, r, readlen) ==
  LET v == se_result_valid(r, readlen)
      ambig == se_result_ambig(r)
  IN [tot_rds |-> st.tot_rds + 1,
      uniq_rds |-> st.uniq_rds + (IF v /\ ~ambig THEN 1 ELSE 0),
      ambig_rds |-> st.ambig_rds + (IF v /\ ambig THEN 1 ELSE 0),
      unmapped_rds |-> st.unmapped_rds + (IF v \/ readlen = 0 THEN 0 ELSE 1),
      skipped_rds |-> st.skipped_rds + (IF readlen = 0 THEN 1 ELSE 0)]

\* se_map_stats::update(res, read)
se_map_stats_update(st, r, readlen) ==
  LET v == se_result_valid(r, readlen)
      ambig == se_result_ambig(r)
  IN [tot_rds |-> st.tot_rds + 1,
      uniq_rds |-> st.uniq_rds + (IF v /\ ~ambig THEN 1 ELSE 0),
      ambig_rds |-> st.ambig_rds + (IF v /\ ambig THEN 1 ELSE 0),
      unmapped_rds |-> st.unmapped_rds + (IF v THEN 0 ELSE 1),
      skipped_rds |-> st.skipped_rds + (IF readlen = 0 THEN 1 ELSE 0)]

(***************************************************************************)
(* pe_element and pe_result                                                *)
(***************************************************************************)
pe_element_new == [r1 |-> se_element_new, r2 |-> se_element_new]

\* pe_element::diffs(): the sum returned as a score_t
pe_element_diffs(p) == ToScore(p.r1.diffs + p.r2.diffs)

\* pe_element::valid: the sum is compared as an int
pe_element_valid(p, readlen1, readlen2) ==
  p.r1.diffs + p.r2.diffs <= ToScore((readlen1 + readlen2) \div 10)

pe_element_is_equal_to(a, b) ==
  /\ pe_element_diffs(a) = pe_element_diffs(b)
  /\ ~(a.r1.pos = b.r1.pos /\ a.r2.pos = b.r2.pos)

pe_element_is_better_than(a, b) == pe_element_diffs(a) < pe_element_diffs(b)

pe_element_reset(p, readlen1, readlen2) ==
  [r1 |-> se_element_reset(p.r1, readlen1), r2 |-> se_element_reset(p.r2, readlen2)]

\* pe_element::min_dist and max_dist, set by the -l and -L options (32 and
\* 3000 unless given); the reads of the model have five bases and the window
\* is chosen to fit them
min_dist == 9
max_dist == 11

pe_result_new == [best |-> pe_element_new, second_best |-> pe_element_new]

\* pe_result::update: <<the result, the value returned>>
pe_result_update(r, cand) ==
  IF pe_element_is_better_than(cand, r.second_best)
    THEN IF pe_element_is_better_than(cand, r.best)
           THEN <<[best |-> cand, second_best |-> r.best], TRUE>>
           ELSE <<[r EXCEPT !.second_best = cand], FALSE>>
    ELSE <<r, FALSE>>

pe_result_reset(r, readlen1, readlen2) ==
  [best |-> pe_element_reset(r.best, readlen1, readlen2),
   second_best |-> pe_element_reset(r.second_best, readlen1, readlen2)]

pe_result_ambig(r) == pe_element_is_equal_to(r.best, r.second_best)

pe_result_valid(r, readlen1, readlen2) == pe_element_valid(r.best, readlen1, readlen2)

(***************************************************************************)
(* format_pe, select_output, pe_map_stats                                  *)
(***************************************************************************)
\* the two sam_rec of a pair, with the flags set on each
sam_rec_pe(p, c1, c2, cig1, cig2, ambig_flag) ==
  LET is_rc == rc(p.r1)
      tlen == IF is_rc THEN c1.r_p - c2.r_e ELSE c2.r_e - c1.r_p
      secondary == IF ambig_flag THEN {"secondary_aln"} ELSE {}
  IN << [flags |-> {"read_paired", "read_pair_mapped", "template_first"} \cup
                   (IF is_rc THEN {"read_rc"} ELSE {"mate_rc"}) \cup secondary,
         rname |-> c1.r_chr, pos |-> c1.r_p + 1, cigar |-> cig1,
         pnext |-> c2.r_p + 1, tlen |-> tlen,
         NM |-> p.r1.diffs, CV |-> IF elem_is_a_rich(p.r1) THEN "A" ELSE "T"],
        [flags |-> {"read_paired", "read_pair_mapped", "template_last"} \cup
                   (IF is_rc THEN {"mate_rc"} ELSE {"read_rc"}) \cup secondary,
         rname |-> c2.r_chr, pos |-> c2.r_p + 1, cigar |-> cig2,
         pnext |-> c1.r_p + 1, tlen |-> 0 - tlen,
         NM |-> p.r2.diffs, CV |-> IF elem_is_a_rich(p.r2) THEN "A" ELSE "T"] >>

\* format_pe(allow_ambig, res, cl, read1, read2, name1, name2, cig1, cig2, out)
format_pe(allow, r, starts, readlen1, readlen2, cig1, cig2) ==
  LET ambig == pe_result_ambig(r) IN
  IF ~allow /\ ambig THEN [ret |-> "map_ambig", out |-> <<>>]
  ELSE LET p == r.best
           c1 == chrom_and_posn(starts, cig1, p.r1.pos)
           c2 == chrom_and_posn(starts, cig2, p.r2.pos)
       IN IF \/ ~pe_result_valid(r, readlen1, readlen2)
             \/ ~c1.ok
             \/ ~c2.ok
             \/ c1.r_chr # c2.r_chr
            THEN [ret |-> "map_unmapped", out |-> <<>>]
            ELSE [ret |-> IF ambig THEN "map_ambig" ELSE "map_unique",
                  out |-> sam_rec_pe(p, c1, c2, cig1, cig2, allow /\ ambig)]

\* a plausible slip: the single-end records are written after the pair too
select_output_always_se(allow, starts, best, se1, se2, readlen1, readlen2, cig1, cig2) ==
  LET all(f, f1, f2) ==
        [best |-> IF f.ret = "map_unmapped"
                    THEN pe_result_reset(best, readlen1, readlen2) ELSE best,
         se1 |-> IF f1.ret = "map_unmapped" THEN se_result_reset(se1, readlen1) ELSE se1,
         se2 |-> IF f2.ret = "map_unmapped" THEN se_result_reset(se2, readlen2) ELSE se2,
         out |-> f.out \o f1.out \o f2.out,
         pe_map_type |-> f.ret, se1_type |-> f1.ret, se2_type |-> f2.ret]
  IN all(format_pe(allow, best, starts, readlen1, readlen2, cig1, cig2),
         format_se(allow, se1, starts, readlen1, cig1),
         format_se(allow, se2, starts, readlen2, cig2))

\* select_output: the three results as it leaves them, the records written,
\* and the value of each format call ("none" for a call not made)
select_output(allow, starts, best, se1, se2, readlen1, readlen2, cig1, cig2) ==
  LET \* lines 551-558: the resets that follow the three format calls
      single_ends(f, f1, f2) ==
        [best |-> IF f.ret = "map_unmapped"
                    THEN pe_result_reset(best, readlen1, readlen2) ELSE best,
         se1 |-> IF f1.ret = "map_unmapped" THEN se_result_reset(se1, readlen1) ELSE se1,
         se2 |-> IF f2.ret = "map_unmapped" THEN se_result_reset(se2, readlen2) ELSE se2,
         out |-> f.out \o f1.out \o f2.out,
         pe_map_type |-> f.ret, se1_type |-> f1.ret, se2_type |-> f2.ret]
      \* lines 549-550, f the value and the records of format_pe
      formatted(f) ==
        IF f.ret = "map_unmapped" \/ (~allow /\ f.ret = "map_ambig")
          THEN single_ends(f, format_se(allow, se1, starts, readlen1, cig1),
                           format_se(allow, se2, starts, readlen2, cig2))
          ELSE [best |-> best, se1 |-> se1, se2 |-> se2, out |-> f.out,
                pe_map_type |-> f.ret, se1_type |-> "none", se2_type |-> "none"]
  IN formatted(format_pe(allow, best, starts, readlen1, readlen2, cig1, cig2))

pe_map_stats_new ==
  [tot_pairs |-> 0, uniq_pairs |-> 0, ambig_pairs |-> 0, unmapped_pairs |-> 0,
   end1_stats |-> se_map_stats_new, end2_stats |-> se_map_stats_new]

\* pe_map_stats::update(allow_ambig, res, res_se1, res_se2, read1, read2)
pe_map_stats_update(st, allow, r, se1, se2, readlen1, readlen2) ==
  LET is_valid == pe_result_valid(r, readlen1, readlen2)
      ambig == pe_result_ambig(r)
      ends == ~is_valid \/ (~allow /\ ambig)
  IN [tot_pairs |-> st.tot_pairs + 1,
      uniq_pairs |-> st.uniq_pairs + (IF is_valid /\ ~ambig THEN 1 ELSE 0),
      ambig_pairs |-> st.ambig_pairs + (IF is_valid /\ ambig THEN 1 ELSE 0),
      unmapped_pairs |-> st.unmapped_pairs + (IF ends THEN 0 ELSE 1),
      end1_stats |-> IF ends THEN se_map_stats_update(st.end1_stats, se1, readlen1)
                             ELSE st.end1_stats,
      end2_stats |-> IF ends THEN se_map_stats_update(st.end2_stats, se2, readlen2)
                             ELSE st.end2_stats]

(***************************************************************************)
(* pe_candidates: v holds the sz entries in use                            *)
(***************************************************************************)
max_size == 20

pe_candidates_new == [v |-> <<se_element_new>>, sz |-> 1]

pe_candidates_full(c) == c.sz = max_size

\* pe_candidates::get_cutoff
pe_candidates_get_cutoff(c) == ToScore(c.v[1].diffs + 1)

pe_candidates_reset(c, readlen) ==
  [v |-> <<se_element_reset(c.v[1], readlen)>>, sz |-> 1]

\* std::push_heap under operator< (diffs): the last entry moves up while its
\* parent has fewer diffs
RECURSIVE sift_up(_, _, _)
sift_up(v, hole, value) ==
  IF hole > 1 /\ v[hole \div 2].diffs < value.diffs
    THEN sift_up([v EXCEPT ![hole] = v[hole \div 2]], hole \div 2, value)
    ELSE [v EXCEPT ![hole] = value]

push_heap(v) == sift_up(v, Len(v), v[Len(v)])

\* std::pop_heap: the largest entry goes to the back, the rest stay a heap
RECURSIVE sift_down(_, _, _, _)
sift_down(v, hole, n, value) ==
  LET l == 2 * hole
      r == 2 * hole + 1
      child == IF r <= n /\ ~(v[r].diffs < v[l].diffs) THEN r ELSE l
  IN IF l > n THEN sift_up([v EXCEPT ![hole] = value], hole, value)
     ELSE sift_down([v EXCEPT ![hole] = v[child]], child, n, value)

pop_heap(v) ==
  IF Len(v) <= 1 THEN v
  ELSE LET n == Len(v)
           top == v[1]
           moved == sift_down(v, 1, n - 1, v[n])
       IN [moved EXCEPT ![n] = top]

\* a plausible slip: a candidate as bad as the worst one kept is taken too
pe_candidates_update_le(c, p, d, s) ==
  IF d <= c.v[1].diffs
    THEN IF pe_candidates_full(c)
           THEN LET popped == pop_heap(c.v)
                IN [c EXCEPT !.v = push_heap([popped EXCEPT ![Len(popped)] =
                                                se_element_make(p, d, s)])]
           ELSE [v |-> push_heap(Append(c.v, se_element_make(p, d, s))), sz |-> c.sz + 1]
    ELSE c

\* pe_candidates::update(p, d, s)
pe_candidates_update(c, p, d, s) ==
  IF d < c.v[1].diffs
    THEN IF pe_candidates_full(c)
           THEN LET popped == pop_heap(c.v)
                IN [c EXCEPT !.v = push_heap([popped EXCEPT ![Len(popped)] =
                                                se_element_make(p, d, s)])]
           ELSE [v |-> push_heap(Append(c.v, se_element_make(p, d, s))), sz |-> c.sz + 1]
    ELSE c

\* std::sort by pos: entries of equal pos keep their order
RECURSIVE sort_by_pos(_)
sort_by_pos(v) ==
  IF v = <<>> THEN <<>>
  ELSE LET rest == sort_by_pos(Tail(v))
           before == SelectSeq(rest, LAMBDA e : e.pos < v[1].pos)
           after == SelectSeq(rest, LAMBDA e : ~(e.pos < v[1].pos))
       IN before \o <<v[1]>> \o after

\* std::unique under operator== (diffs and pos)
RECURSIVE unique(_)
unique(v) ==
  IF Len(v) <= 1 THEN v
  ELSE IF v[1].diffs = v[2].diffs /\ v[1].pos = v[2].pos
    THEN unique(<<v[1]>> \o Tail(Tail(v)))
    ELSE <<v[1]>> \o unique(Tail(v))

prepare_for_mating(c) ==
  LET u == unique(sort_by_pos(c.v)) IN [v |-> u, sz |-> Len(u)]

(***************************************************************************)
(* best_single, best_pair, select_maps, map_fragments                      *)
(***************************************************************************)
\* full_compare without the cutoff: the positions i with
\* (read[i] & genome[pos + i]) == 0
mismatches(pread, genome, p) ==
  Cardinality({k \in 1..Len(pread) : the_comp(pread[k], genome[p + k])})

\* best_single: the candidates are handed to update until sure_ambig(0)
RECURSIVE best_single(_, _, _)
best_single(pres, i, r) ==
  IF i > pres.sz \/ sure_ambig(r, 0) THEN r
  ELSE best_single(pres, i + 1,
                   se_result_update(r, pres.v[i].pos, pres.v[i].diffs, pres.v[i].flags))

\* best_pair, lines 1171-1172: the test on the positions after the alignment
within_limits(s1_pos, aligned_lim) ==
  (s1_pos + max_dist >= aligned_lim) /\ (s1_pos + min_dist <= aligned_lim)

\* the while loop of best_pair from j1 on.  st holds s2, aligned_s2,
\* aligned_lim, the candidate cigars, best, cig1, cig2, and the pairs handed
\* to best.update; env holds pread1, pread2, the genome and the aligner's
\* q_sz_max
RECURSIVE best_pair_j1(_, _, _, _, _, _)
best_pair_j1(st, j1, v1, unaligned_lim, env, swap_ends) ==
  LET \* lines 1173-1177: the pair is handed to best.update, u its outcome
      accepted(st1, a1, a2, u) ==
        [st1 EXCEPT !.best = u[1],
                    !.cig1 = IF u[2] THEN a1.cigar ELSE @,
                    !.cig2 = IF u[2] THEN a2.cigar ELSE @,
                    !.accepted = @ \cup {[plus |-> a1.e, minus |-> a2.e,
                                          plus_cigar |-> a1.cigar,
                                          minus_cigar |-> a2.cigar]}]
      \* lines 1171-1172, st1 the state once s1 and s2 are aligned
      tested(st1, a1, a2) ==
        IF within_limits(a1.e.pos, st1.aligned_lim)
          THEN accepted(st1, a1, a2,
                        pe_result_update(st.best, IF swap_ends THEN [r1 |-> a2.e, r2 |-> a1.e]
                                                               ELSE [r1 |-> a1.e, r2 |-> a2.e]))
          ELSE st1
      \* lines 1160-1168, a1 and a2 the alignments of s1 and of s2
      aligned(a1, a2) ==
        tested([st EXCEPT !.s2 = a2.e, !.aligned_s2 = TRUE,
                          !.aligned_lim = IF st.aligned_s2 THEN st.aligned_lim
                                          ELSE a2.e.pos + cigar_rseq_ops(a2.cigar),
                          !.cand_cig1 = a1.cigar, !.cand_cig2 = a2.cigar],
               a1, a2)
  IN IF j1 > Len(v1) THEN st
     ELSE IF ~(v1[j1].pos + min_dist <= unaligned_lim) THEN st
     ELSE IF ~valid_hit(v1[j1], Len(env.pread1))
       THEN best_pair_j1(st, j1 + 1, v1, unaligned_lim, env, swap_ends)
     ELSE best_pair_j1(
            aligned(align_read_pe(v1[j1], st.cand_cig1, env.pread1, env.genome, env.q_sz_max),
                    IF st.aligned_s2 THEN [e |-> st.s2, cigar |-> st.cand_cig2]
                    ELSE align_read_pe(st.s2, st.cand_cig2, env.pread2, env.genome,
                                       env.q_sz_max)),
            j1 + 1, v1, unaligned_lim, env, swap_ends)

\* the first j1 with j1->pos + max_dist >= unaligned_lim
RECURSIVE first_in_reach(_, _, _)
first_in_reach(v1, j1, unaligned_lim) ==
  IF j1 <= Len(v1) /\ v1[j1].pos + max_dist < unaligned_lim
    THEN first_in_reach(v1, j1 + 1, unaligned_lim)
    ELSE j1

\* the for loop of best_pair from j2 on
RECURSIVE best_pair_j2(_, _, _, _, _, _)
best_pair_j2(st, j2, v1, v2, env, swap_ends) ==
  IF j2 > Len(v2) THEN st
  ELSE IF ~valid_hit(v2[j2], Len(env.pread2))
    THEN best_pair_j2([st EXCEPT !.s2 = v2[j2]], j2 + 1, v1, v2, env, swap_ends)
  ELSE best_pair_j2(
         best_pair_j1([st EXCEPT !.s2 = v2[j2], !.aligned_s2 = FALSE],
                      first_in_reach(v1, 1, v2[j2].pos + Len(env.pread2)), v1,
                      v2[j2].pos + Len(env.pread2), env, swap_ends),
         j2 + 1, v1, v2, env, swap_ends)

\* best_pair<swap_ends>(res1, res2, pread1, pread2, cig1, cig2, aln, best)
best_pair(swap_ends, res1, res2, env, cig1, cig2, best, accepted) ==
  LET left(st) == [best |-> st.best, cig1 |-> st.cig1, cig2 |-> st.cig2,
                   accepted |-> st.accepted]
  IN left(best_pair_j2([s2 |-> se_element_new, aligned_s2 |-> FALSE, aligned_lim |-> 0,
                        cand_cig1 |-> <<>>, cand_cig2 |-> <<>>,
                        best |-> best, cig1 |-> cig1, cig2 |-> cig2,
                        accepted |-> accepted],
                       1, res1.v, res2.v, env, swap_ends))

\* process_seeds on a pe_candidates: every position of hits is compared and
\* handed to update, in increasing order
RECURSIVE process_seeds(_, _, _, _, _)
process_seeds(c, hits, pread, genome, strand_code) ==
  IF hits = {} THEN c
  ELSE LET p == CHOOSE x \in hits : \A y \in hits : x <= y
       IN process_seeds(pe_candidates_update(c, p, mismatches(pread, genome, p), strand_code),
                        hits \ {p}, pread, genome, strand_code)

\* select_maps<swap_ends>
select_maps(swap_ends, env, cig1, cig2, res1, res2, res_se1, res_se2, best, accepted) ==
  LET mated(m1, m2, b) ==
        [res1 |-> m1, res2 |-> m2,
         res_se1 |-> best_single(m1, 1, res_se1), res_se2 |-> best_single(m2, 1, res_se2),
         best |-> b.best, cig1 |-> b.cig1, cig2 |-> b.cig2, accepted |-> b.accepted]
      prepared(m1, m2) ==
        mated(m1, m2, best_pair(swap_ends, m1, m2, env, cig1, cig2, best, accepted))
  IN prepared(prepare_for_mating(res1), prepare_for_mating(res2))

\* map_fragments<cmp, swap_ends, strand_code1, strand_code2>, with the
\* parameters under the names the function gives them; hits1 and hits2 are the
\* positions the seeds of each read lead to
map_fragments(cmp, swap_ends, strand_code1, strand_code2, read1, read2, hits1, hits2, genome, q_sz_max, s) ==
  LET selected(pread1, pread2, m) ==
        [pread1 |-> pread1, pread2 |-> pread2, cigar1 |-> m.cig1, cigar2 |-> m.cig2,
         res1 |-> m.res1, res2 |-> m.res2, res_se1 |-> m.res_se1, res_se2 |-> m.res_se2,
         bests |-> m.best, accepted |-> m.accepted]
      \* lines 1219-1238 once pread1 and pread2 hold what lines 1223 and 1231 leave
      prepared(pread1, pread2) ==
        selected(pread1, pread2,
                 select_maps(swap_ends,
                             [pread1 |-> pread1, pread2 |-> pread2, genome |-> genome,
                              q_sz_max |-> q_sz_max],
                             s.cigar1, s.cigar2,
                             IF read1 # <<>>
                               THEN process_seeds(pe_candidates_reset(s.res1, Len(read1)),
                                                  hits1, pread1, genome, strand_code1)
                               ELSE pe_candidates_reset(s.res1, Len(read1)),
                             IF read2 # <<>>
                               THEN process_seeds(pe_candidates_reset(s.res2, Len(read2)),
                                                  hits2, pread2, genome, strand_code2)
                               ELSE pe_candidates_reset(s.res2, Len(read2)),
                             s.res_se1, s.res_se2, s.bests, s.accepted))
  IN prepared(IF read1 # <<>> THEN prep_read(cmp, read1) ELSE s.pread1,
              IF read2 # <<>> THEN prep_read(cmp, revcomp(read2)) ELSE s.pread2)

(***************************************************************************)
(* Spec: one se_result slot of map_single_ended, read after read.          *)
(***************************************************************************)
\* the reads that reach the slot: a skipped read (cleared by load_reads) and
\* a read of five bases
SeReads == { <<>>, <<chA, chC, chG, chT, chA>> }


\* the candidates handed to update since the reset: none, exactly one (kept in
\* first), or more than one
offered_none == [n |-> 0, first |-> se_element_new]

SeInit ==
  /\ pc = "reset"
  /\ res = se_result_new
  /\ read = <<>>
  /\ cigar = <<>>
  /\ allow_ambig \in BOOLEAN
  /\ offered = offered_none
  /\ ret = "none"
  /\ written = <<>>
  /\ se_stats = se_map_stats_new
  /\ nreads = 0

SeIdle ==
  /\ pc = "idle"
  /\ res = se_result_new
  /\ read = <<>>
  /\ cigar = <<>>
  /\ allow_ambig = FALSE
  /\ offered = offered_none
  /\ ret = "none"
  /\ written = <<>>
  /\ se_stats = se_map_stats_new
  /\ nreads = 0

SeedIdle ==
  /\ mt = <<>> /\ mc = <<>> /\ hp = <<>> /\ fcmp = <<>> /\ fc = <<>>
  /\ tie = <<>> /\ ch = <<>>

Init == SeInit /\ enc = <<>> /\ vt = <<>> /\ aln = <<>> /\ pe = <<>> /\ SeedIdle

\* map_single_ended, lines 953-955: the next read of the batch takes the slot
\* and the slot is reset; a skipped read goes straight to the emit loop
SeReset ==
  /\ pc = "reset"
  /\ nreads < MaxReads
  /\ \E r \in SeReads :
       /\ read' = r
       /\ res' = se_result_reset(res, Len(r))
       /\ pc' = IF r = <<>> THEN "emit" ELSE "seeds"
  /\ offered' = offered_none
  /\ ret' = "none"
  /\ written' = <<>>
  /\ nreads' = nreads + 1
  /\ UNCHANGED <<cigar, allow_ambig, se_stats, enc, vt, aln, pe>>
  /\ UNCHANGED seedVars

\* check_hits, line 603: a candidate is handed to res.update
SeUpdate ==
  /\ pc = "seeds"
  /\ \E p \in 0..MaxPos, d \in 0..invalid_hit_threshold(Len(read)), f \in StrandCodes :
       /\ res' = se_result_update(res, p, d, f)
       /\ offered' = IF offered.n = 0
                      THEN [n |-> 1, first |-> se_element_make(p, d, f)]
                      ELSE [n |-> 2, first |-> se_element_new]
  /\ UNCHANGED <<pc, read, cigar, allow_ambig, ret, written, se_stats, nreads,
                 enc, vt, aln, pe>>
  /\ UNCHANGED seedVars

\* map_single_ended, line 972: align_se_candidates; pread holds the encoding
\* of the reverse complement, the last one prepared
SeAlign ==
  /\ pc = "seeds"
  /\ \E a \in {align_se_candidates(res, cigar, read, prep_read(TRUE, revcomp(read)),
                                      Genome, Len(read))} :
       res' = a.res /\ cigar' = a.cigar
  /\ pc' = "emit"
  /\ UNCHANGED <<read, allow_ambig, offered, ret, written, se_stats, nreads,
                 enc, vt, aln, pe>>
  /\ UNCHANGED seedVars

\* map_single_ended, lines 978-981: format_se, the reset of an unmapped
\* result, se_stats.update
SeEmit ==
  /\ pc = "emit"
  /\ \E f \in {format_se(allow_ambig, res, ChromStarts, Len(read), cigar)} :
       /\ ret' = f.ret
       /\ written' = f.out
       /\ res' = IF f.ret = "map_unmapped" THEN se_result_reset(res, Len(read)) ELSE res
       /\ se_stats' = se_map_stats_update(se_stats, res', Len(read))
  /\ pc' = "reset"
  /\ UNCHANGED <<read, cigar, allow_ambig, offered, nreads, enc, vt, aln, pe>>
  /\ UNCHANGED seedVars

Next == SeReset \/ SeUpdate \/ SeAlign \/ SeEmit

Spec == Init /\ [][Next]_vars

(***************************************************************************)
(* SpecEnc: one character is encoded and compared with a reference base.   *)
(***************************************************************************)
EncInit ==
  /\ enc \in { <<[c |-> c, ref |-> b, conv |-> cv, done |-> FALSE, code |-> 0,
                  mismatch |-> FALSE]>> :
               c \in 0..255, b \in {"A", "C", "G", "T"}, cv \in {"t_rich", "a_rich"} }
  /\ SeIdle /\ vt = <<>> /\ aln = <<>> /\ pe = <<>> /\ SeedIdle

\* prep_read on the character, then the_comp against the reference mask
EncCompare ==
  /\ enc # <<>>
  /\ ~enc[1].done
  /\ enc' = <<[enc[1] EXCEPT !.done = TRUE,
                             !.code = prep_base(enc[1].conv, enc[1].c),
                             !.mismatch = the_comp(prep_base(enc[1].conv, enc[1].c),
                                                   encode_ref(enc[1].ref))]>>
  /\ UNCHANGED <<pc, res, read, cigar, allow_ambig, offered, ret, written, se_stats,
                 nreads, vt, aln, pe>>
  /\ UNCHANGED seedVars

SpecEnc == EncInit /\ [][EncCompare]_vars

(***************************************************************************)
(* SpecValid: se_element::valid_hit and se_element::valid.                 *)
(***************************************************************************)
VtInit ==
  /\ vt \in { <<[readlen |-> l, diffs |-> d, done |-> FALSE, valid_hit |-> FALSE,
                 valid |-> FALSE]>> : l \in 0..MaxLen, d \in 0..MaxDiffs }
  /\ SeIdle /\ enc = <<>> /\ aln = <<>> /\ pe = <<>> /\ SeedIdle

VtCheck ==
  /\ vt # <<>>
  /\ ~vt[1].done
  /\ LET e == se_element_make(0, vt[1].diffs, {}) IN
     vt' = <<[vt[1] EXCEPT !.done = TRUE,
                           !.valid_hit = valid_hit(e, vt[1].readlen),
                           !.valid = valid(e, vt[1].readlen)]>>
  /\ UNCHANGED <<pc, res, read, cigar, allow_ambig, offered, ret, written, se_stats,
                 nreads, enc, aln, pe>>
  /\ UNCHANGED seedVars

SpecValid == VtInit /\ [][VtCheck]_vars

(***************************************************************************)
(* SpecAln: AbismalAlign::align on every query and genome of the bounds.   *)
(***************************************************************************)
\* sequences of length n over S
SeqsOf(S, n) == [1..n -> S]

\* the encoded bases of the queries and the masks of the genomes
AlnQueryBases == {1, 2}
AlnGenomeBases == {1, 2}

aln_none == [score |-> 0, t_pos |-> 0, len |-> 0, ucigar |-> <<>>, cigar |-> <<>>,
             oob |-> FALSE]

AlnInit ==
  /\ aln \in { <<[query |-> q, t_pos |-> t, genome |-> g, done |-> FALSE, out |-> aln_none]>> :
               q \in UNION { SeqsOf(AlnQueryBases, n) : n \in 1..MaxQLen },
               t \in 0..(AlnGenomeLen - 1),
               g \in SeqsOf(AlnGenomeBases, AlnGenomeLen) }
  /\ SeIdle /\ enc = <<>> /\ vt = <<>> /\ pe = <<>> /\ SeedIdle

\* aln.align(pread, res.pos, len, cigar) with an aligner built for MaxQLen
AlnAlign ==
  /\ aln # <<>>
  /\ ~aln[1].done
  /\ aln' = <<[aln[1] EXCEPT !.done = TRUE,
                             !.out = align(aln[1].query, aln[1].t_pos, aln[1].genome,
                                           Len(aln[1].genome), MaxQLen)]>>
  /\ UNCHANGED <<pc, res, read, cigar, allow_ambig, offered, ret, written, se_stats,
                 nreads, enc, vt, pe>>
  /\ UNCHANGED seedVars

SpecAln == AlnInit /\ [][AlnAlign]_vars

(***************************************************************************)
(* SpecPe: one slot of map_paired_ended, fragment after fragment.          *)
(***************************************************************************)
\* the 4-bit genome of the paired-end specification
PeGenome ==
  [k \in 1..16 |-> encode_ref(<<"N", "C", "T", "C", "T", "C", "T", "G", "G", "A", "G",
                                "C", "N", "N", "N", "N">>[k])]

\* the chromosome tables the index may hold for it
PeChromTables == { <<0, 16>>, <<0, 7, 16>>, <<0, 6, 16>> }

\* first mates: a skipped read, TTTTT and GTTTT
PeReads1 == { <<>>, <<chT, chT, chT, chT, chT>>, <<chG, chT, chT, chT, chT>> }

\* second mates: a skipped read, TCTCC and GCTCC
PeReads2 == { <<>>, <<chT, chC, chT, chC, chC>>, <<chG, chC, chT, chC, chC>> }

\* the positions at which a read is compared and found a valid hit; update
\* drops every other compared position (line 412)
seed_hits(pread, genome) ==
  { p \in 0..(Len(genome) - Len(pread)) :
      mismatches(pread, genome, p) < invalid_hit_threshold(Len(pread)) }

PeInit ==
  /\ pe \in { <<[pc |-> "load", allow_ambig |-> a, starts |-> st,
                 reads1 |-> <<>>, reads2 |-> <<>>, pread1 |-> <<>>, pread2 |-> <<>>,
                 cigar1 |-> <<>>, cigar2 |-> <<>>, q_sz_max |-> 0,
                 bests |-> pe_result_new,
                 res1 |-> pe_candidates_new, res2 |-> pe_candidates_new,
                 res_se1 |-> se_result_new, res_se2 |-> se_result_new,
                 accepted |-> {}, out |-> <<>>,
                 pe_map_type |-> "none", se1_type |-> "none", se2_type |-> "none",
                 pe_stats |-> pe_map_stats_new, nfrags |-> 0,
                 min_read_length |-> m]>> :
              a \in BOOLEAN, st \in PeChromTables,
              m \in {MinLengthBelowReads, MinLengthOfReads} }
  /\ SeIdle /\ enc = <<>> /\ vt = <<>> /\ aln = <<>> /\ SeedIdle

\* map_paired_ended, lines 1286-1303: a batch of one fragment is loaded, the
\* aligner is built for its longest read, and the three results are reset
PeLoad ==
  /\ pe # <<>>
  /\ pe[1].pc = "load"
  /\ pe[1].nfrags < MaxFrags
  /\ \E r1 \in PeReads1, r2 \in PeReads2 :
       pe' = <<[pe[1] EXCEPT
                  !.pc = "frag1",
                  !.reads1 = r1, !.reads2 = r2,
                  !.q_sz_max = Max(Len(r1), Len(r2)),
                  !.res_se1 = se_result_reset(@, Len(r1)),
                  !.res_se2 = se_result_reset(@, Len(r2)),
                  !.bests = pe_result_reset(@, Len(r1), Len(r2)),
                  !.accepted = {}, !.out = <<>>,
                  !.pe_map_type = "none", !.se1_type = "none", !.se2_type = "none",
                  !.nfrags = @ + 1]>>
  /\ UNCHANGED seVars
  /\ UNCHANGED <<enc, vt, aln>>
  /\ UNCHANGED seedVars

\* map_paired_ended, lines 1305-1311: map_fragments<conv, false, ...> with
\* conv = t_rich
PeMapFragments1 ==
  /\ pe # <<>>
  /\ pe[1].pc = "frag1"
  /\ LET s == pe[1]
         hits1 == IF s.reads1 = <<>> THEN {} ELSE seed_hits(prep_read(FALSE, s.reads1), PeGenome)
         hits2 == IF s.reads2 = <<>> THEN {}
                  ELSE seed_hits(prep_read(FALSE, revcomp(s.reads2)), PeGenome)
     IN \E h1 \in SUBSET hits1, h2 \in SUBSET hits2 :
          \E m \in {map_fragments(FALSE, FALSE, get_strand_code("+", "t_rich"),
                                    get_strand_code("-", "a_rich"),
                                    s.reads1, s.reads2, h1, h2, PeGenome, s.q_sz_max,
                                    [pread1 |-> s.pread1, pread2 |-> s.pread2,
                                     cigar1 |-> s.cigar1, cigar2 |-> s.cigar2,
                                     res1 |-> s.res1, res2 |-> s.res2,
                                     res_se1 |-> s.res_se1, res_se2 |-> s.res_se2,
                                     bests |-> s.bests, accepted |-> s.accepted])} :
            pe' = <<[s EXCEPT !.pc = "frag2",
                               !.pread1 = m.pread1, !.pread2 = m.pread2,
                               !.cigar1 = m.cigar1, !.cigar2 = m.cigar2,
                               !.res1 = m.res1, !.res2 = m.res2,
                               !.res_se1 = m.res_se1, !.res_se2 = m.res_se2,
                               !.bests = m.bests, !.accepted = m.accepted]>>
  /\ UNCHANGED seVars
  /\ UNCHANGED <<enc, vt, aln>>
  /\ UNCHANGED seedVars

\* map_paired_ended, lines 1313-1319: map_fragments<!conv, true, ...>; the
\* second mate and its slots take the place of the first
PeMapFragments2 ==
  /\ pe # <<>>
  /\ pe[1].pc = "frag2"
  /\ LET s == pe[1]
         hits1 == IF s.reads2 = <<>> THEN {} ELSE seed_hits(prep_read(TRUE, s.reads2), PeGenome)
         hits2 == IF s.reads1 = <<>> THEN {}
                  ELSE seed_hits(prep_read(TRUE, revcomp(s.reads1)), PeGenome)
     IN \E h1 \in SUBSET hits1, h2 \in SUBSET hits2 :
          \E m \in {map_fragments(TRUE, TRUE, get_strand_code("+", "a_rich"),
                                    get_strand_code("-", "t_rich"),
                                    s.reads2, s.reads1, h1, h2, PeGenome, s.q_sz_max,
                                    [pread1 |-> s.pread1, pread2 |-> s.pread2,
                                     cigar1 |-> s.cigar2, cigar2 |-> s.cigar1,
                                     res1 |-> s.res2, res2 |-> s.res1,
                                     res_se1 |-> s.res_se2, res_se2 |-> s.res_se1,
                                     bests |-> s.bests, accepted |-> s.accepted])} :
            pe' = <<[s EXCEPT !.pc = "align",
                               !.pread1 = m.pread1, !.pread2 = m.pread2,
                               !.cigar2 = m.cigar1, !.cigar1 = m.cigar2,
                               !.res2 = m.res1, !.res1 = m.res2,
                               !.res_se2 = m.res_se1, !.res_se1 = m.res_se2,
                               !.bests = m.bests, !.accepted = m.accepted]>>
  /\ UNCHANGED seVars
  /\ UNCHANGED <<enc, vt, aln>>
  /\ UNCHANGED seedVars

\* map_paired_ended, lines 1321-1325: the single-end candidates are aligned
\* when the pair is not valid or is ambiguous
PeAlignSe ==
  /\ pe # <<>>
  /\ pe[1].pc = "align"
  /\ LET s == pe[1] IN
     IF ~pe_result_valid(s.bests, Len(s.reads1), Len(s.reads2)) \/ pe_result_ambig(s.bests)
       THEN \E a1 \in {align_se_candidates(s.res_se1, s.cigar1, s.reads1, s.pread1,
                                             PeGenome, s.q_sz_max)},
               a2 \in {align_se_candidates(s.res_se2, s.cigar2, s.reads2, s.pread2,
                                             PeGenome, s.q_sz_max)} :
              pe' = <<[s EXCEPT !.pc = "emit",
                                 !.res_se1 = a1.res, !.cigar1 = a1.cigar,
                                 !.pread1 = a1.pread,
                                 !.res_se2 = a2.res, !.cigar2 = a2.cigar,
                                 !.pread2 = a2.pread]>>
       ELSE pe' = <<[s EXCEPT !.pc = "emit"]>>
  /\ UNCHANGED seVars
  /\ UNCHANGED <<enc, vt, aln>>
  /\ UNCHANGED seedVars

\* map_paired_ended, lines 1329-1334: select_output, then pe_stats.update
PeEmit ==
  /\ pe # <<>>
  /\ pe[1].pc = "emit"
  /\ \E s \in {pe[1]} :
     \E o \in {select_output(s.allow_ambig, s.starts, s.bests, s.res_se1, s.res_se2,
                                Len(s.reads1), Len(s.reads2), s.cigar1, s.cigar2)} :
        pe' = <<[s EXCEPT !.pc = "load",
                          !.bests = o.best, !.res_se1 = o.se1, !.res_se2 = o.se2,
                          !.out = o.out,
                          !.pe_map_type = o.pe_map_type,
                          !.se1_type = o.se1_type, !.se2_type = o.se2_type,
                          !.pe_stats = pe_map_stats_update(s.pe_stats, s.allow_ambig,
                                                           o.best, o.se1, o.se2,
                                                           Len(s.reads1), Len(s.reads2))]>>
  /\ UNCHANGED seVars
  /\ UNCHANGED <<enc, vt, aln>>
  /\ UNCHANGED seedVars

PeNext == PeLoad \/ PeMapFragments1 \/ PeMapFragments2 \/ PeAlignSe \/ PeEmit

SpecPe == PeInit /\ [][PeNext]_vars

(***************************************************************************)
(* Properties of se_result, format_se and the single-end slot (Spec).      *)
(***************************************************************************)
\* C1: from reset(readlen) on, after every sequence of update calls,
\* best.diffs <= second_best.diffs
C1_BestNotWorse ==
  pc = "seeds" => res.best.diffs <= res.second_best.diffs

\* two candidates were accepted and the better one is best
C1_Witness ==
  /\ pc = "seeds"
  /\ offered.n = 2
  /\ res.best.diffs < res.second_best.diffs
  /\ res.second_best.diffs < invalid_hit_threshold(Len(read))

\* C2, as the code has it: once best holds an accepted candidate (its diffs
\* are below the reset threshold), best and second_best never hold the same
\* (pos, flags) under reset and update
C2_DistinctOnceAccepted ==
  (pc = "seeds" /\ res.best.diffs < invalid_hit_threshold(Len(read)))
    => ~(res.best.pos = res.second_best.pos /\ res.best.flags = res.second_best.flags)

\* two accepted candidates at one position, told apart by their flags
C2_Witness ==
  /\ pc = "seeds"
  /\ res.best.diffs < invalid_hit_threshold(Len(read))
  /\ res.second_best.diffs < invalid_hit_threshold(Len(read))
  /\ res.best.pos = res.second_best.pos
  /\ res.best.flags # res.second_best.flags

\* C2 as stated: in every state after reset, the state right after reset
\* included, best and second_best never hold the same (pos, flags)
C2_DistinctAlways ==
  pc = "seeds"
    => ~(res.best.pos = res.second_best.pos /\ res.best.flags = res.second_best.flags)

\* C3 as stated: when the read occurs exactly once in the reference, forward
\* at position p, and the candidate (p, 0, forward T-rich) is the one offered
\* to the freshly reset se_result, the read is reported as a unique mapping at
\* p with strand +, NM 0, CV T and CIGAR <L>M
C3_ExactHitReportedUnique ==
  LET c == offered.first
      occurrences == { p \in 0..(Len(Genome) - Len(read)) :
                         \A k \in 1..Len(read) :
                           ~the_comp(encode_t_rich(read[k]), Genome[p + k]) }
      where == get_chrom_idx_and_offset(ChromStarts, c.pos, Len(read))
  IN (/\ pc = "reset" /\ nreads > 0 /\ read # <<>>
      /\ offered.n = 1
      /\ c.diffs = 0 /\ c.flags = get_strand_code("+", "t_rich")
      /\ occurrences = {c.pos})
     => /\ ret = "map_unique"
        /\ written = <<[flags |-> {}, rname |-> where.chrom_idx, pos |-> where.offset + 1,
                        cigar |-> <<<<Len(read), "M">>>>, NM |-> 0, CV |-> "T"]>>

\* C8, as the code has it: format_se writes exactly one record iff
\* (allow_ambig or the result is not ambiguous) and best is valid and the
\* lookup succeeds; with !allow_ambig and an ambiguous result it writes nothing
\* and returns map_ambig; otherwise, when best is not valid or the lookup
\* fails, it writes nothing and returns map_unmapped; a record written for an
\* ambiguous result carries secondary_aln and the call returns map_ambig
C8_FormatSeCases ==
  [][SeEmit =>
       LET ambig == se_result_ambig(res)
           is_valid == valid(res.best, Len(read))
           found == chrom_and_posn(ChromStarts, cigar, res.best.pos).ok
           suppressed == ~allow_ambig /\ ambig
       IN /\ Len(written') <= 1
          /\ (Len(written') = 1) <=> (~suppressed /\ is_valid /\ found)
          /\ suppressed => (written' = <<>> /\ ret' = "map_ambig")
          /\ (~suppressed /\ (~is_valid \/ ~found))
               => (written' = <<>> /\ ret' = "map_unmapped")
          /\ (Len(written') = 1 /\ ambig)
               => ("secondary_aln" \in written'[1].flags /\ ret' = "map_ambig")
          /\ (Len(written') = 1 /\ ~ambig)
               => ("secondary_aln" \notin written'[1].flags /\ ret' = "map_unique")
  ]_vars

\* an ambiguous result was written under allow_ambig
C8_Witness ==
  /\ pc = "reset" /\ nreads > 0
  /\ allow_ambig
  /\ ret = "map_ambig"
  /\ Len(written) = 1
  /\ "secondary_aln" \in written[1].flags

\* C8 as stated: whenever best is not valid or the lookup fails, format_se
\* writes nothing and returns map_unmapped
C8_UnmappedWheneverInvalid ==
  [][SeEmit =>
       ((~valid(res.best, Len(read))
          \/ ~chrom_and_posn(ChromStarts, cigar, res.best.pos).ok)
        => (written' = <<>> /\ ret' = "map_unmapped"))
  ]_vars

(***************************************************************************)
(* Properties of the encodings (SpecEnc).                                  *)
(***************************************************************************)
\* C5: under (read & ref) == 0 as the mismatch, a T-rich character matches a
\* reference base iff it is that base or it is T against C; an A-rich
\* character matches iff it is that base or it is A against G; upper and lower
\* case alike; every other character encodes to 0 and matches nothing
C5_EncodingMatches ==
  (enc # <<>> /\ enc[1].done) =>
    LET e == enc[1]
        base == CASE e.c \in {65, 97} -> "A"
                  [] e.c \in {67, 99} -> "C"
                  [] e.c \in {71, 103} -> "G"
                  [] e.c \in {84, 116} -> "T"
                  [] OTHER -> "other"
        matches == ~e.mismatch
    IN /\ (e.conv = "t_rich")
            => (matches <=> (base = e.ref \/ (base = "T" /\ e.ref = "C")))
       /\ (e.conv = "a_rich")
            => (matches <=> (base = e.ref \/ (base = "A" /\ e.ref = "G")))
       /\ (base = "other") => (e.code = 0 /\ ~matches)

\* a lower-case t of a T-rich read was compared with reference C and matched
C5_Witness ==
  /\ enc # <<>>
  /\ enc[1].done
  /\ enc[1].conv = "t_rich" /\ enc[1].c = 116 /\ enc[1].ref = "C"
  /\ ~enc[1].mismatch

(***************************************************************************)
(* Properties of the thresholds (SpecValid).                               *)
(***************************************************************************)
\* C7, as the code has it: valid_hit(L) iff diffs < floor(4L/10), and
\* valid(L) iff diffs < floor(4L/10) and diffs <= floor(L/10)
C7_Thresholds ==
  (vt # <<>> /\ vt[1].done) =>
    /\ vt[1].valid_hit <=> (vt[1].diffs < (4 * vt[1].readlen) \div 10)
    /\ vt[1].valid <=> (/\ vt[1].diffs < (4 * vt[1].readlen) \div 10
                        /\ vt[1].diffs <= vt[1].readlen \div 10)

\* diffs equal to floor(4L/10): not a valid hit
C7_Witness ==
  /\ vt # <<>>
  /\ vt[1].done
  /\ vt[1].readlen = 10 /\ vt[1].diffs = 4
  /\ ~vt[1].valid_hit

\* C7 as stated: valid(L) iff diffs <= floor(L/10), and valid_hit(L) iff
\* diffs <= floor(4L/10)
C7_ThresholdsInclusive ==
  (vt # <<>> /\ vt[1].done) =>
    /\ vt[1].valid <=> (vt[1].diffs <= vt[1].readlen \div 10)
    /\ vt[1].valid_hit <=> (vt[1].diffs <= (4 * vt[1].readlen) \div 10)

(***************************************************************************)
(* Properties of the aligner (SpecAln).                                    *)
(***************************************************************************)
\* C6: when align finds a positive maximum score, the uncompressed CIGAR has
\* exactly q_sz operations among M, I, S; S occurs only in a leading and a
\* trailing run; len = M + I; the traceback stays inside the table
C6_CigarConsistent ==
  (aln # <<>> /\ aln[1].done /\ aln[1].out.score > 0) =>
    LET u == aln[1].out.ucigar
        count(ops) == Cardinality({k \in 1..Len(u) : u[k] \in ops})
    IN /\ count({"M", "I", "S"}) = Len(aln[1].query)
       /\ \A i, j, k \in 1..Len(u) :
            (i < j /\ j < k) => ~(u[i] # "S" /\ u[j] = "S" /\ u[k] # "S")
       /\ aln[1].out.len = count({"M", "I"})
       /\ ~aln[1].out.oob

\* an alignment with a leading soft clip, a trailing soft clip and a positive
\* score
C6_Witness ==
  /\ aln # <<>>
  /\ aln[1].done
  /\ aln[1].out.score > 0
  /\ Len(aln[1].out.ucigar) >= 3
  /\ aln[1].out.ucigar[1] = "S"
  /\ aln[1].out.ucigar[Len(aln[1].out.ucigar)] = "S"

(***************************************************************************)
(* Properties of best_pair, format_pe and select_output (SpecPe).          *)
(***************************************************************************)
\* C4: every pair best_pair hands to pe_result, and every pair format_pe
\* writes, has min_dist <= E - S <= max_dist, S the position of the
\* plus-strand mate after its alignment and E the position of the minus-strand
\* mate after its alignment plus the reference operations of its CIGAR
C4_PairWindow ==
  pe # <<>> =>
    /\ \A a \in pe[1].accepted :
         LET S == a.plus.pos
             E == a.minus.pos + cigar_rseq_ops(a.minus_cigar)
         IN min_dist <= E - S /\ E - S <= max_dist
    /\ (pe[1].pe_map_type \in {"map_unique", "map_ambig"} /\ Len(pe[1].out) = 2) =>
         LET plus == IF "read_rc" \in pe[1].out[1].flags THEN pe[1].out[2] ELSE pe[1].out[1]
             minus == IF "read_rc" \in pe[1].out[1].flags THEN pe[1].out[1] ELSE pe[1].out[2]
             S == plus.pos - 1
             E == (minus.pos - 1) + cigar_rseq_ops(minus.cigar)
         IN min_dist <= E - S /\ E - S <= max_dist

\* a pair whose minus-strand mate was aligned with a soft clip was accepted
\* and the fragment was written as a pair
C4_Witness ==
  /\ pe # <<>>
  /\ pe[1].pc = "load" /\ pe[1].nfrags > 0
  /\ pe[1].pe_map_type = "map_unique"
  /\ Len(pe[1].out) = 2
  /\ \E a \in pe[1].accepted : a.minus_cigar # cigar_all_match(Len(pe[1].reads2))

\* C9 as stated: format_pe writes the two pair records only if the pair result
\* is valid, both lookups succeed and the chromosomes agree; in every other
\* case that is not suppressed as ambiguous it writes nothing and returns
\* map_unmapped, select_output resets the pair result, and the pair is counted
\* as unmapped
C9_UnmappedPairCounted ==
  [][PeEmit =>
       LET s == pe[1]
           t == pe'[1]
           c1 == chrom_and_posn(s.starts, s.cigar1, s.bests.best.r1.pos)
           c2 == chrom_and_posn(s.starts, s.cigar2, s.bests.best.r2.pos)
           pair_ok == /\ pe_result_valid(s.bests, Len(s.reads1), Len(s.reads2))
                      /\ c1.ok /\ c2.ok /\ c1.r_chr = c2.r_chr
           suppressed == ~s.allow_ambig /\ pe_result_ambig(s.bests)
           wrote_pair == \E k \in 1..Len(t.out) : "read_paired" \in t.out[k].flags
       IN /\ wrote_pair => pair_ok
          /\ (~suppressed /\ ~pair_ok) =>
               /\ ~wrote_pair
               /\ t.pe_map_type = "map_unmapped"
               /\ t.bests = pe_result_reset(s.bests, Len(s.reads1), Len(s.reads2))
               /\ t.pe_stats.unmapped_pairs = s.pe_stats.unmapped_pairs + 1
               /\ t.pe_stats.uniq_pairs = s.pe_stats.uniq_pairs
               /\ t.pe_stats.ambig_pairs = s.pe_stats.ambig_pairs
  ]_vars

\* C10, as the code has it: select_output never writes both pair records and
\* single-end records; when format_pe finds no valid pair on one chromosome,
\* or the pair is ambiguous and allow_ambig is off, no pair record is written
\* and format_se is attempted once for each mate with that mate's single-end
\* result; otherwise (an ambiguous pair under allow_ambig included) only the
\* two pair records are written
C10_PairOrSingleEnds ==
  [][PeEmit =>
       LET s == pe[1]
           t == pe'[1]
           c1 == chrom_and_posn(s.starts, s.cigar1, s.bests.best.r1.pos)
           c2 == chrom_and_posn(s.starts, s.cigar2, s.bests.best.r2.pos)
           pair_ok == /\ pe_result_valid(s.bests, Len(s.reads1), Len(s.reads2))
                      /\ c1.ok /\ c2.ok /\ c1.r_chr = c2.r_chr
           suppressed == ~s.allow_ambig /\ pe_result_ambig(s.bests)
           pair_recs == {k \in 1..Len(t.out) : "read_paired" \in t.out[k].flags}
           se_recs == {k \in 1..Len(t.out) : "read_paired" \notin t.out[k].flags}
           se1 == format_se(s.allow_ambig, s.res_se1, s.starts, Len(s.reads1), s.cigar1)
           se2 == format_se(s.allow_ambig, s.res_se2, s.starts, Len(s.reads2), s.cigar2)
       IN /\ pair_recs = {} \/ se_recs = {}
          /\ (suppressed \/ ~pair_ok) =>
               /\ pair_recs = {}
               /\ t.se1_type = se1.ret /\ t.se2_type = se2.ret
               /\ t.out = se1.out \o se2.out
          /\ ~(suppressed \/ ~pair_ok) =>
               /\ Cardinality(pair_recs) = 2 /\ Len(t.out) = 2
               /\ t.se1_type = "none" /\ t.se2_type = "none"
  ]_vars

\* an ambiguous pair was written under allow_ambig and no single-end record
\* with it
C10_Witness ==
  /\ pe # <<>>
  /\ pe[1].pc = "load" /\ pe[1].nfrags > 0
  /\ pe[1].allow_ambig
  /\ pe[1].pe_map_type = "map_ambig"
  /\ Len(pe[1].out) = 2
  /\ pe[1].se1_type = "none" /\ pe[1].se2_type = "none"

\* C10 as stated: whenever no valid concordant pair exists or the pair is
\* ambiguous, no pair record is written and format_se is attempted for each
\* mate
C10_FallbackWheneverAmbiguous ==
  [][PeEmit =>
       LET s == pe[1]
           t == pe'[1]
           c1 == chrom_and_posn(s.starts, s.cigar1, s.bests.best.r1.pos)
           c2 == chrom_and_posn(s.starts, s.cigar2, s.bests.best.r2.pos)
           pair_ok == /\ pe_result_valid(s.bests, Len(s.reads1), Len(s.reads2))
                      /\ c1.ok /\ c2.ok /\ c1.r_chr = c2.r_chr
       IN (~pair_ok \/ pe_result_ambig(s.bests)) =>
            /\ \A k \in 1..Len(t.out) : "read_paired" \notin t.out[k].flags
            /\ t.se1_type # "none" /\ t.se2_type # "none"
  ]_vars

(***************************************************************************)
(* SpecMt: the workers of run_single_ended, each in the while loop of      *)
(* map_single_ended, sharing the ReadLoader, read_lock, write_lock, the    *)
(* output stream and se_stats.                                             *)
(***************************************************************************)
NumThreads == 2    \* workers in the parallel region
StreamReads == 3   \* the reads file holds 1..StreamReads reads
batch_size == 2    \* the -B option of the model

Workers == 1..NumThreads
NoWorker == 0

\* a plausible slip: the lock is taken without waiting for its holder
omp_set_lock_enabled_always(lock) == TRUE

\* omp_set_lock(&lock) returns once the lock has no holder
omp_set_lock_enabled(lock) == lock = NoWorker

\* a plausible slip: the lock is not given back
omp_unset_lock_kept(lock, w) == lock

\* omp_unset_lock(&lock) by worker w: the lock has no holder
omp_unset_lock(lock, w) == NoWorker

\* the last use of the ReadLoader: who, which member, who held read_lock,
\* and who was between the first and the last statement of load_reads
no_access == [worker |-> NoWorker, op |-> "none", holder |-> NoWorker, loading |-> {}]

\* the workers inside load_reads: past the getline loop, before in->peek()
in_load_reads(m) == { v \in Workers : m.pc[v] = "peek" }

\* the read numbers first..last in stream order
read_numbers(first, last) == [k \in 1..(last - first + 1) |-> first + k - 1]

\* the reads of the stream, by their number: every third read is shorter than
\* min_read_length and load_reads leaves it empty, the others have ten bases
MtReadLen(k) == IF k % 3 = 0 THEN 0 ELSE 10

\* what lines 953-974 leave in res[i] for read k: one exact hit, two exact
\* hits at different positions, or the result as reset left it
MtResult(k) ==
  LET fresh == se_result_reset(se_result_new, MtReadLen(k))
      s == get_strand_code("-", "t_rich")
  IN IF k % 3 = 1 THEN se_result_update(fresh, k, 0, s)
     ELSE IF k % 3 = 2 THEN se_result_update(se_result_update(fresh, k, 0, s), k + 1, 0, s)
     ELSE fresh

MtInit ==
  /\ mt \in { <<[pc |-> [w \in Workers |-> "good"],
                 read_lock |-> NoWorker, write_lock |-> NoWorker,
                 remaining |-> n, good |-> TRUE, was_good |-> TRUE, taken |-> 0,
                 reads |-> [w \in Workers |-> <<>>],
                 i |-> [w \in Workers |-> 0],
                 batches |-> <<>>, out |-> <<>>, stats_log |-> <<>>,
                 se_stats |-> se_map_stats_new,
                 access |-> no_access]>> : n \in 1..StreamReads }
  /\ SeIdle /\ enc = <<>> /\ vt = <<>> /\ aln = <<>> /\ pe = <<>>
  /\ mc = <<>> /\ hp = <<>> /\ fcmp = <<>> /\ fc = <<>> /\ tie = <<>> /\ ch = <<>>

\* ReadLoader::good(), line 80, as line 939 evaluates it without read_lock:
\* while another worker is inside load_reads the state of the stream is being
\* written, and the value read is the one the stream had when load_reads was
\* entered, the one it has now or the one in->peek() will leave
good_seen(m) ==
  IF in_load_reads(m) # {}
    THEN {m.was_good, m.good, m.good /\ (m.remaining > 0)}
    ELSE {m.good}

\* line 939: while (rl.good())
MtGood(w) ==
  /\ mt # <<>>
  /\ mt[1].pc[w] = "good"
  /\ \E g \in good_seen(mt[1]) :
       mt' = <<[mt[1] EXCEPT !.pc[w] = IF g THEN "set_read_lock" ELSE "done",
                             !.access = [worker |-> w, op |-> "good",
                                         holder |-> mt[1].read_lock,
                                         loading |-> in_load_reads(mt[1])]]>>
  /\ UNCHANGED seVars
  /\ UNCHANGED <<enc, vt, aln, pe, mc, hp, fcmp, fc, tie, ch>>

\* line 940: omp_set_lock(&read_lock)
MtSetReadLock(w) ==
  /\ mt # <<>>
  /\ mt[1].pc[w] = "set_read_lock"
  /\ omp_set_lock_enabled(mt[1].read_lock)
  /\ mt' = <<[mt[1] EXCEPT !.pc[w] = "load_reads", !.read_lock = w]>>
  /\ UNCHANGED seVars
  /\ UNCHANGED <<enc, vt, aln, pe, mc, hp, fcmp, fc, tie, ch>>

\* line 944, ReadLoader::load_reads up to the end of its getline loop: up to
\* batch_size reads are taken; a getline that finds no line leaves the stream
\* not good
MtLoadReads(w) ==
  /\ mt # <<>>
  /\ mt[1].pc[w] = "load_reads"
  /\ \E n \in {IF mt[1].good THEN Min(batch_size, mt[1].remaining) ELSE 0} :
       mt' = <<[mt[1] EXCEPT
                  !.pc[w] = "peek",
                  !.reads[w] = read_numbers(mt[1].taken + 1, mt[1].taken + n),
                  !.batches = IF n = 0 THEN @
                              ELSE Append(@, read_numbers(mt[1].taken + 1, mt[1].taken + n)),
                  !.remaining = @ - n, !.taken = @ + n,
                  !.good = @ /\ (n = batch_size),
                  !.was_good = mt[1].good,
                  !.access = [worker |-> w, op |-> "load_reads",
                              holder |-> mt[1].read_lock,
                              loading |-> in_load_reads(mt[1])]]>>
  /\ UNCHANGED seVars
  /\ UNCHANGED <<enc, vt, aln, pe, mc, hp, fcmp, fc, tie, ch>>

\* ReadLoader::load_reads, line 104: in->peek() finds the end of the file
MtPeek(w) ==
  /\ mt # <<>>
  /\ mt[1].pc[w] = "peek"
  /\ mt' = <<[mt[1] EXCEPT !.pc[w] = "unset_read_lock",
                           !.good = @ /\ (mt[1].remaining > 0)]>>
  /\ UNCHANGED seVars
  /\ UNCHANGED <<enc, vt, aln, pe, mc, hp, fcmp, fc, tie, ch>>

\* line 945: omp_unset_lock(&read_lock)
MtUnsetReadLock(w) ==
  /\ mt # <<>>
  /\ mt[1].pc[w] = "unset_read_lock"
  /\ mt' = <<[mt[1] EXCEPT !.pc[w] = "map", !.read_lock = omp_unset_lock(@, w)]>>
  /\ UNCHANGED seVars
  /\ UNCHANGED <<enc, vt, aln, pe, mc, hp, fcmp, fc, tie, ch>>

\* lines 947-974: the reads of the batch are mapped into the worker's own
\* res and cigar
MtMap(w) ==
  /\ mt # <<>>
  /\ mt[1].pc[w] = "map"
  /\ mt' = <<[mt[1] EXCEPT !.pc[w] = "set_write_lock"]>>
  /\ UNCHANGED seVars
  /\ UNCHANGED <<enc, vt, aln, pe, mc, hp, fcmp, fc, tie, ch>>

\* line 976: omp_set_lock(&write_lock)
MtSetWriteLock(w) ==
  /\ mt # <<>>
  /\ mt[1].pc[w] = "set_write_lock"
  /\ omp_set_lock_enabled(mt[1].write_lock)
  /\ mt' = <<[mt[1] EXCEPT !.pc[w] = "emit", !.write_lock = w, !.i[w] = 0]>>
  /\ UNCHANGED seVars
  /\ UNCHANGED <<enc, vt, aln, pe, mc, hp, fcmp, fc, tie, ch>>

\* lines 977-982: one turn of the emit loop, format_se and se_stats.update
\* for reads[i]
MtEmit(w) ==
  /\ mt # <<>>
  /\ mt[1].pc[w] = "emit"
  /\ mt[1].i[w] < Len(mt[1].reads[w])
  /\ mt' = <<[mt[1] EXCEPT !.out = Append(@, mt[1].reads[w][mt[1].i[w] + 1]),
                           !.stats_log = Append(@, mt[1].reads[w][mt[1].i[w] + 1]),
                           !.se_stats = se_map_stats_update(
                                          @, MtResult(mt[1].reads[w][mt[1].i[w] + 1]),
                                          MtReadLen(mt[1].reads[w][mt[1].i[w] + 1])),
                           !.i[w] = @ + 1]>>
  /\ UNCHANGED seVars
  /\ UNCHANGED <<enc, vt, aln, pe, mc, hp, fcmp, fc, tie, ch>>

\* line 983: omp_unset_lock(&write_lock) once i == n_reads
MtUnsetWriteLock(w) ==
  /\ mt # <<>>
  /\ mt[1].pc[w] = "emit"
  /\ mt[1].i[w] = Len(mt[1].reads[w])
  /\ mt' = <<[mt[1] EXCEPT !.pc[w] = "good",
                           !.write_lock = IF @ = w THEN omp_unset_lock(@, w) ELSE @]>>
  /\ UNCHANGED seVars
  /\ UNCHANGED <<enc, vt, aln, pe, mc, hp, fcmp, fc, tie, ch>>

MtNext ==
  \E w \in Workers :
    \/ MtGood(w)
    \/ MtSetReadLock(w)
    \/ MtLoadReads(w)
    \/ MtPeek(w)
    \/ MtUnsetReadLock(w)
    \/ MtMap(w)
    \/ MtSetWriteLock(w)
    \/ MtEmit(w)
    \/ MtUnsetWriteLock(w)

SpecMt == MtInit /\ [][MtNext]_vars

(***************************************************************************)
(* Properties of the workers (SpecMt).                                     *)
(***************************************************************************)
\* the places of the reads of batch b in the sequence log
places(log, b) == { k \in 1..Len(log) : \E j \in 1..Len(b) : log[k] = b[j] }

\* the reads of b written so far are its first reads, in the order of b, one
\* after the other in log
contiguous_in_order(log, b) ==
  \E first \in 1..(Len(log) + 1), n \in 0..Len(b) :
    /\ places(log, b) = first..(first + n - 1)
    /\ \A j \in 1..n : log[first + j - 1] = b[j]

\* C11: at most one worker is between omp_set_lock(&write_lock) and
\* omp_unset_lock(&write_lock); the records of each batch are contiguous in
\* out, in the order the batch was loaded, and so are the se_stats updates
C11_EmitExclusive ==
  mt # <<>> =>
    /\ Cardinality({ w \in Workers : mt[1].pc[w] = "emit" }) <= 1
    /\ \A w \in Workers : mt[1].pc[w] = "emit" => mt[1].write_lock = w
    /\ \A b \in 1..Len(mt[1].batches) :
         /\ contiguous_in_order(mt[1].out, mt[1].batches[b])
         /\ contiguous_in_order(mt[1].stats_log, mt[1].batches[b])
    /\ \A b \in 1..Len(mt[1].batches) :
         \/ Cardinality(places(mt[1].out, mt[1].batches[b])) \in {0, Len(mt[1].batches[b])}
         \/ \E w \in Workers : mt[1].pc[w] = "emit" /\ mt[1].reads[w] = mt[1].batches[b]

\* one worker has written the first read of a batch of two while another
\* worker, its batch mapped, waits for write_lock
C11_Witness ==
  /\ mt # <<>>
  /\ \E w \in Workers, v \in Workers :
       /\ w # v
       /\ mt[1].pc[w] = "emit" /\ mt[1].i[w] = 1 /\ Len(mt[1].reads[w]) = 2
       /\ mt[1].pc[v] = "set_write_lock" /\ Len(mt[1].reads[v]) >= 1

\* C12: every use of the ReadLoader is made by the holder of read_lock, and
\* none while another worker is inside load_reads
C12_StreamAccessUnderLock ==
  mt # <<>> =>
    (mt[1].access.op # "none" =>
       /\ mt[1].access.holder = mt[1].access.worker
       /\ mt[1].access.loading \subseteq {mt[1].access.worker})

(***************************************************************************)
(* SpecMaxCand: select_max_candidates on the genome sizes of the bounds.   *)
(***************************************************************************)
MaxGenomeSteps == 60      \* genome sizes are 0..MaxGenomeSteps steps
GenomeSizeStep == 25000   \* one step, in bases; also taken a thousandfold

min_max_candidates == 100
max_max_candidates == 1000000

\* genome_size * genome_frac cast to uint32_t: genome_frac is 1.0 in sensitive
\* mode and 1e-5 otherwise; on the sizes of the model the double product
\* truncates to the integer quotient
candidates_of(sensitive_mode, genome_size) ==
  IF sensitive_mode THEN genome_size ELSE genome_size \div 100000

\* select_max_candidates(sensitive_mode, genome_size, max_candidates): the
\* value max_candidates is left with.  Line 1524 assigns max(c,
\* min_max_candidates); line 1525 assigns min(c, max_max_candidates), computed
\* from c again
select_max_candidates(sensitive_mode, genome_size) ==
  LET assign(c, line_1524) == Min(c, max_max_candidates)
      chosen(c) == assign(c, Max(c, min_max_candidates))
  IN chosen(candidates_of(sensitive_mode, genome_size))

GenomeSizes ==
  { k * GenomeSizeStep * scale : k \in 0..MaxGenomeSteps, scale \in {1, 1000} }

McInit ==
  /\ mc \in { <<[sensitive_mode |-> sm, genome_size |-> g, done |-> FALSE,
                 max_candidates |-> 0]>> : sm \in BOOLEAN, g \in GenomeSizes }
  /\ SeIdle /\ enc = <<>> /\ vt = <<>> /\ aln = <<>> /\ pe = <<>>
  /\ mt = <<>> /\ hp = <<>> /\ fcmp = <<>> /\ fc = <<>> /\ tie = <<>> /\ ch = <<>>

\* main, lines 1653-1655: max_candidates is 0 (no -c option) and
\* select_max_candidates sets it
McSelect ==
  /\ mc # <<>>
  /\ ~mc[1].done
  /\ mc' = <<[mc[1] EXCEPT !.done = TRUE,
                           !.max_candidates =
                              select_max_candidates(mc[1].sensitive_mode,
                                                    mc[1].genome_size)]>>
  /\ UNCHANGED seVars
  /\ UNCHANGED <<enc, vt, aln, pe, mt, hp, fcmp, fc, tie, ch>>

SpecMaxCand == McInit /\ [][McSelect]_vars

(***************************************************************************)
(* Properties of select_max_candidates (SpecMaxCand).                      *)
(***************************************************************************)
\* C13: for every genome size and either value of sensitive_mode,
\* max_candidates is floor(genome_size * fraction) clamped into
\* [100, 1000000], so never below 100
C13_CapClamped ==
  (mc # <<>> /\ mc[1].done) =>
    /\ mc[1].max_candidates =
         Min(Max(candidates_of(mc[1].sensitive_mode, mc[1].genome_size),
                 min_max_candidates), max_max_candidates)
    /\ mc[1].max_candidates >= min_max_candidates

(***************************************************************************)
(* SpecHeap: one pe_candidates, reset and then updated candidate after     *)
(* candidate, as process_seeds does through check_hits.                    *)
(***************************************************************************)
HeapReadLen == 5   \* the read the candidates are compared with has 5 bases
HeapMaxPos == 0    \* the candidates stand at 0..HeapMaxPos

hp_none == [op |-> "none", p |-> 0, d |-> 0, s |-> {}]

HpInit ==
  /\ hp = <<[c |-> pe_candidates_new, last |-> hp_none]>>
  /\ SeIdle /\ enc = <<>> /\ vt = <<>> /\ aln = <<>> /\ pe = <<>>
  /\ mt = <<>> /\ mc = <<>> /\ fcmp = <<>> /\ fc = <<>> /\ tie = <<>> /\ ch = <<>>

\* map_fragments, lines 1219-1220: res.reset(read.size())
HpReset ==
  /\ hp # <<>>
  /\ hp' = <<[c |-> pe_candidates_reset(hp[1].c, HeapReadLen),
              last |-> [hp_none EXCEPT !.op = "reset"]]>>
  /\ UNCHANGED seVars
  /\ UNCHANGED <<enc, vt, aln, pe, mt, mc, fcmp, fc, tie, ch>>

\* check_hits, line 603: res.update(*start_idx, diffs, strand_code); diffs is
\* at most the cutoff full_compare was given, plus one
HpUpdate ==
  /\ hp # <<>>
  /\ hp[1].last.op # "none"
  /\ \E p \in 0..HeapMaxPos, d \in 0..(pe_candidates_get_cutoff(hp[1].c) + 1),
        s \in {get_strand_code("+", "t_rich")} :
       hp' = <<[c |-> pe_candidates_update(hp[1].c, p, d, s),
                last |-> [op |-> "update", p |-> p, d |-> d, s |-> s]]>>
  /\ UNCHANGED seVars
  /\ UNCHANGED <<enc, vt, aln, pe, mt, mc, fcmp, fc, tie, ch>>

HpNext == HpReset \/ HpUpdate

SpecHeap == HpInit /\ [][HpNext]_vars

(***************************************************************************)
(* Properties of pe_candidates (SpecHeap).                                 *)
(***************************************************************************)
\* the entries v[0..sz) with the number of times each is held
entries(c) ==
  [e \in { c.v[k] : k \in 1..c.sz } |-> Cardinality({ k \in 1..c.sz : c.v[k] = e })]

\* the bag with e once
once(e) == [x \in {e} |-> 1]

\* what update(p, d, s) may make of the heap before: after is the heap it
\* leaves
update_as_claimed(before, after, p, d, s) ==
  IF d < before.v[1].diffs
    THEN IF before.sz = max_size
           THEN /\ after.sz = max_size
                /\ \E k \in 1..before.sz :
                     /\ before.v[k].diffs = before.v[1].diffs
                     /\ entries(after) (+) once(before.v[k]) =
                          entries(before) (+) once(se_element_make(p, d, s))
           ELSE /\ after.sz = before.sz + 1
                /\ entries(after) = entries(before) (+) once(se_element_make(p, d, s))
    ELSE after = before

\* sz and v[0] as claimed
bounded_max_heap(c) ==
  /\ 1 <= c.sz /\ c.sz <= max_size /\ Len(c.v) = c.sz
  /\ \A k \in 1..c.sz : c.v[k].diffs <= c.v[1].diffs

\* C14: from reset on, 1 <= sz <= max_size and v[0] has the largest diffs of
\* v[0..sz); an update below v[0].diffs on a full heap removes one entry of
\* maximal diffs and inserts the candidate, on a heap that is not full it adds
\* the candidate, and an update with diffs >= v[0].diffs changes nothing
C14_BoundedMaxHeap ==
  /\ [](hp # <<>> => bounded_max_heap(hp[1].c))
  /\ [][(hp # <<>> /\ hp'[1].last.op = "update") =>
          update_as_claimed(hp[1].c, hp'[1].c, hp'[1].last.p, hp'[1].last.d,
                            hp'[1].last.s)]_vars

\* the heap is full and the entry reset left in v[0] has been removed from it
\* for a better candidate
C14_Witness ==
  /\ hp # <<>>
  /\ hp[1].last.op = "update"
  /\ hp[1].c.sz = max_size
  /\ hp[1].c.v[1].diffs < invalid_hit_threshold(HeapReadLen)
  /\ hp[1].c.v[1].diffs = hp[1].last.d

(***************************************************************************)
(* SpecCmp: a read is put in its even and odd forms by prep_for_seeds and  *)
(* compared with the genome at one position by full_compare, as check_hits *)
(* does.                                                                   *)
(***************************************************************************)
MaxSeedLen == 4     \* encoded reads have 1..MaxSeedLen bases
CmpGenomeLen == 6   \* bases of the genomes of this specification
MaxCutoff == 3      \* full_compare is given the cutoffs 1..MaxCutoff

first_base_match_any == 15
last_base_match_any == 240

\* a plausible slip: the odd form without the byte of its first base
pread_odd_size_short(sz) == sz \div 2

\* prep_for_seeds, line 767: the size pread_odd is given
pread_odd_size(sz) == sz \div 2 + 1

\* prep_for_seeds, line 766: the size pread_even is given
pread_even_size(sz) == (sz + 1) \div 2

\* a plausible slip: the upper half of the last byte is left without a bit set
two_bases_no_padding(pread_seed, k) ==
  pread_seed[k] + (IF k + 1 <= Len(pread_seed) THEN ((pread_seed[k + 1] * 16) % 256)
                   ELSE 0)

\* the byte with base lo and, if the read has it, the base after it shifted
\* into the upper half (lines 774-776 and 783-785); k is the place of lo
two_bases(pread_seed, k) ==
  pread_seed[k] + (IF k + 1 <= Len(pread_seed) THEN ((pread_seed[k + 1] * 16) % 256)
                   ELSE last_base_match_any)

\* prep_for_seeds(pread_seed, pread_even, pread_odd)
prep_for_seeds(pread_seed) ==
  [pread_even |-> [i \in 1..pread_even_size(Len(pread_seed)) |->
                     two_bases(pread_seed, 2 * i - 1)],
   pread_odd |-> [i \in 1..pread_odd_size(Len(pread_seed)) |->
                    IF i = 1 THEN first_base_match_any + ((pread_seed[1] * 16) % 256)
                    ELSE two_bases(pread_seed, 2 * i - 2)]]

\* the genome of the index, two bases in a byte, the base at an even position
\* in the lower half
pack_genome(bases) ==
  [i \in 1..(Len(bases) \div 2) |-> bases[2 * i - 1] + 16 * bases[2 * i]]

\* mismatch_lookup[x]: the halves of x without a bit set
mismatch_lookup(x) ==
  (IF x % 16 = 0 THEN 1 ELSE 0) + (IF x \div 16 = 0 THEN 1 ELSE 0)

\* the while loop of full_compare after i bytes, with d accumulated; genome
\* starts at genome_itr
RECURSIVE full_compare_loop(_, _, _, _, _)
full_compare_loop(cutoff, read_itr, genome, i, d) ==
  IF d # cutoff /\ i # Len(read_itr)
    THEN full_compare_loop(cutoff, read_itr, genome, i + 1,
                           ToScore(d + mismatch_lookup(BitAnd(read_itr[i + 1], genome[i + 1]))))
    ELSE [d |-> d, scanned |-> i]

\* full_compare(cutoff, read_itr, read_end, genome_itr)
full_compare(cutoff, read_itr, genome) ==
  full_compare_loop(cutoff, read_itr, genome, 0, 0).d

\* the genome from byte first on
genome_from(genome, first) == SubSeq(genome, first + 1, Len(genome))

\* check_hits, lines 597-602: the odd form for an odd position, the even form
\* for an even one, against the byte of the position
form_for(forms, p) == IF p % 2 = 1 THEN forms.pread_odd ELSE forms.pread_even

\* the bases of the reads (A and C) and of the genomes (N and A)
CmpReadBases == {1, 2}
CmpGenomeBases == {0, 1}

\* the strand code check_hits is instantiated with
CmpStrandCode == get_strand_code("-", "t_rich")

\* the positions at which the form of a read of n bases lies within the genome
CmpPositions(n) ==
  { p \in 0..(CmpGenomeLen - 1) :
      (p \div 2) + (IF p % 2 = 1 THEN pread_odd_size(n) ELSE pread_even_size(n))
        <= CmpGenomeLen \div 2 }

CmpInit ==
  /\ fcmp \in { <<[pread |-> r, genome |-> pack_genome(g), pos |-> p, cutoff |-> c,
                   pc |-> "prep", pread_even |-> <<>>, pread_odd |-> <<>>,
                   diffs |-> 0, scanned |-> 0,
                   res |-> [best |-> se_element_make(0, c - 1, {}),
                            second_best |-> se_element_make(0, c - 1, {})],
                   cand |-> [v |-> <<se_element_make(0, c - 1, {})>>, sz |-> 1]]>> :
                 r \in UNION { SeqsOf(CmpReadBases, n) : n \in 1..MaxSeedLen },
                 g \in SeqsOf(CmpGenomeBases, CmpGenomeLen),
                 p \in 0..(CmpGenomeLen - 1), c \in 1..MaxCutoff }
  /\ fcmp[1].pos \in CmpPositions(Len(fcmp[1].pread))
  /\ SeIdle /\ enc = <<>> /\ vt = <<>> /\ aln = <<>> /\ pe = <<>>
  /\ mt = <<>> /\ mc = <<>> /\ hp = <<>> /\ fc = <<>> /\ tie = <<>> /\ ch = <<>>

\* map_single_ended, line 957: prep_for_seeds(pread, pread_even, pread_odd)
CmpPrep ==
  /\ fcmp # <<>>
  /\ fcmp[1].pc = "prep"
  /\ \E f \in {prep_for_seeds(fcmp[1].pread)} :
       fcmp' = <<[fcmp[1] EXCEPT !.pc = "compare",
                                 !.pread_even = f.pread_even,
                                 !.pread_odd = f.pread_odd]>>
  /\ UNCHANGED seVars
  /\ UNCHANGED <<enc, vt, aln, pe, mt, mc, hp, fc, tie, ch>>

\* check_hits, lines 597-602: full_compare on the form of the position's
\* parity
CmpCompare ==
  /\ fcmp # <<>>
  /\ fcmp[1].pc = "compare"
  /\ \E l \in {full_compare_loop(fcmp[1].cutoff, form_for(fcmp[1], fcmp[1].pos),
                                 genome_from(fcmp[1].genome, fcmp[1].pos \div 2), 0, 0)} :
       fcmp' = <<[fcmp[1] EXCEPT !.pc = "done",
                                 !.diffs = full_compare(fcmp[1].cutoff,
                                                        form_for(fcmp[1], fcmp[1].pos),
                                                        genome_from(fcmp[1].genome,
                                                                    fcmp[1].pos \div 2)),
                                 !.scanned = l.scanned]>>
  /\ UNCHANGED seVars
  /\ UNCHANGED <<enc, vt, aln, pe, mt, mc, hp, fc, tie, ch>>

\* check_hits, line 603: res.update(*start_idx, diffs, strand_code), for an
\* se_result and for a pe_candidates whose get_cutoff() is the cutoff given to
\* full_compare
CmpUpdate ==
  /\ fcmp # <<>>
  /\ fcmp[1].pc = "done"
  /\ get_cutoff(fcmp[1].res) = fcmp[1].cutoff
  /\ pe_candidates_get_cutoff(fcmp[1].cand) = fcmp[1].cutoff
  /\ fcmp' = <<[fcmp[1] EXCEPT
                  !.pc = "stored",
                  !.res = se_result_update(@, fcmp[1].pos, fcmp[1].diffs, CmpStrandCode),
                  !.cand = pe_candidates_update(@, fcmp[1].pos, fcmp[1].diffs,
                                                CmpStrandCode)]>>
  /\ UNCHANGED seVars
  /\ UNCHANGED <<enc, vt, aln, pe, mt, mc, hp, fc, tie, ch>>

CmpNext == CmpPrep \/ CmpCompare \/ CmpUpdate

SpecCmp == CmpInit /\ [][CmpNext]_vars

(***************************************************************************)
(* Properties of prep_for_seeds and full_compare (SpecCmp).                *)
(***************************************************************************)
\* ceil(n/2)
ceil_half(n) == (n + 1) \div 2

\* C15: for a read of n >= 1 bases the even form has ceil(n/2) bytes and the
\* odd form floor(n/2) + 1 bytes, which is ceil(n/2) for an odd n
C15_FormSizes ==
  (fcmp # <<>> /\ fcmp[1].pc # "prep") =>
    /\ Len(fcmp[1].pread_even) = ceil_half(Len(fcmp[1].pread))
    /\ Len(fcmp[1].pread_odd) = Len(fcmp[1].pread) \div 2 + 1

\* a read of three bases is in its two forms
C15_Witness ==
  /\ fcmp # <<>>
  /\ fcmp[1].pc # "prep"
  /\ Len(fcmp[1].pread) = 3
  /\ Len(fcmp[1].pread_odd) = 2

\* C15 as stated: the odd form has ceil(n/2) + 1 bytes for every n >= 1
C15_OddFormOneMore ==
  (fcmp # <<>> /\ fcmp[1].pc # "prep") =>
    /\ Len(fcmp[1].pread_even) = ceil_half(Len(fcmp[1].pread))
    /\ Len(fcmp[1].pread_odd) = ceil_half(Len(fcmp[1].pread)) + 1

\* the mismatches of the first i bytes of the form against the genome
RECURSIVE mismatches_upto(_, _, _)
mismatches_upto(form, genome, i) ==
  IF i = 0 THEN 0
  ELSE mismatches_upto(form, genome, i - 1) +
         mismatch_lookup(BitAnd(form[i], genome[i]))

\* C17: full_compare scans up to the first byte after which the count is at
\* least cutoff, or the whole form if there is none, and so returns at most
\* cutoff + 1
C17_StopsAtCutoff ==
  (fcmp # <<>> /\ fcmp[1].pc = "done") =>
    /\ \A i \in 0..(fcmp[1].scanned - 1) :
         mismatches_upto(form_for(fcmp[1], fcmp[1].pos),
                         genome_from(fcmp[1].genome, fcmp[1].pos \div 2), i)
           < fcmp[1].cutoff
    /\ \/ fcmp[1].scanned = Len(form_for(fcmp[1], fcmp[1].pos))
       \/ fcmp[1].diffs >= fcmp[1].cutoff
    /\ fcmp[1].diffs <= fcmp[1].cutoff + 1

(***************************************************************************)
(* SpecFind: find_candidates on the slot of a read's key.                  *)
(***************************************************************************)
FindGenomeLen == 7   \* bases of the genomes of this specification
MaxFindLen == 4      \* reads have key_weight + 1 .. MaxFindLen bases

\* seed::key_weight and seed::n_sorting_positions, scaled to the reads of the
\* model; seed::index_interval is 1
key_weight == 1
n_sorting_positions == 4
index_interval == 1

\* get_bit: the designated bit of an encoded base
get_bit(base) == base % 2

\* the designated bit of the genome p bases after position x
genome_bit(genome, x, p) == get_bit(genome[x + p + 1])

\* the bits of position x at the offsets from..(lim - 1), as a number
RECURSIVE sorting_bits(_, _, _, _)
sorting_bits(genome, x, from, lim) ==
  IF from >= lim THEN 0
  ELSE genome_bit(genome, x, from) * 2^(lim - 1 - from) +
         sorting_bits(genome, x, from + 1, lim)

\* the positions of set in the order of the index: by the bits at the offsets
\* key_weight..(n_sorting_positions - 1), then by position
RECURSIVE index_order(_, _)
index_order(genome, set) ==
  IF set = {} THEN <<>>
  ELSE LET key(x) == sorting_bits(genome, x, key_weight, n_sorting_positions)
           first == CHOOSE x \in set :
                      \A y \in set : key(x) < key(y) \/ (key(x) = key(y) /\ x <= y)
       IN <<first>> \o index_order(genome, set \ {first})

\* the slot of the key of read_start: the positions whose first key_weight
\* bits are those of the read
key_slot(genome, read_start) ==
  index_order(genome,
              { x \in 0..(FindGenomeLen - n_sorting_positions) :
                  \A p \in 0..(key_weight - 1) :
                    genome_bit(genome, x, p) = get_bit(read_start[p + 1]) })

\* a plausible slip: the comparison is not strict
compare_bases_le(genome, p, mid, chr) == genome_bit(genome, mid, p) <= chr

\* compare_bases(gi + p)(mid, chr)
compare_bases(genome, p, mid, chr) == genome_bit(genome, mid, p) < chr

\* std::lower_bound(low, high, 1, compare_bases(gi + p)) on the slot: len is
\* the size of the range still searched
RECURSIVE lower_bound(_, _, _, _, _)
lower_bound(slot, genome, p, low, len) ==
  IF len <= 0 THEN low
  ELSE IF compare_bases(genome, p, slot[low + (len \div 2) + 1], 1)
    THEN lower_bound(slot, genome, p, low + (len \div 2) + 1, len - (len \div 2) - 1)
    ELSE lower_bound(slot, genome, p, low, len \div 2)

\* the for loop of find_candidates from p on; low and high are places in the
\* slot, counted from 0
RECURSIVE find_candidates_from(_, _, _, _, _, _, _)
find_candidates_from(read_start, genome, slot, lim, p, low, high) ==
  LET narrowed(first_1) ==
        IF get_bit(read_start[p + 1]) = 0
          THEN IF first_1 = high THEN [low |-> low, high |-> high]
               ELSE find_candidates_from(read_start, genome, slot, lim, p + 1, low, first_1)
          ELSE IF first_1 = low THEN [low |-> low, high |-> high]
               ELSE find_candidates_from(read_start, genome, slot, lim, p + 1, first_1, high)
  IN IF p = lim THEN [low |-> low, high |-> high]
     ELSE narrowed(lower_bound(slot, genome, p, low, high - low))

\* find_candidates<seed_lim>(read_start, gi, read_lim, low, high)
find_candidates(seed_lim, read_start, genome, slot, read_lim, low, high) ==
  find_candidates_from(read_start, genome, slot, Min(read_lim, seed_lim), key_weight,
                       low, high)

FindBases == {1, 2}

FcInit ==
  /\ fc \in { <<[read_start |-> r, genome |-> g, pc |-> "slot", slot |-> <<>>,
                 low |-> 0, high |-> 0]>> :
               r \in UNION { SeqsOf(FindBases, n) : n \in (key_weight + 1)..MaxFindLen },
               g \in SeqsOf(FindBases, FindGenomeLen) }
  /\ SeIdle /\ enc = <<>> /\ vt = <<>> /\ aln = <<>> /\ pe = <<>>
  /\ mt = <<>> /\ mc = <<>> /\ hp = <<>> /\ fcmp = <<>> /\ tie = <<>> /\ ch = <<>>

\* process_seeds, lines 670-675: the slot of the read's key, s_idx and e_idx
FcSlot ==
  /\ fc # <<>>
  /\ fc[1].pc = "slot"
  /\ \E slot \in {key_slot(fc[1].genome, fc[1].read_start)} :
       fc' = <<[fc[1] EXCEPT !.pc = IF slot = <<>> THEN "done" ELSE "find",
                             !.slot = slot, !.low = 0, !.high = Len(slot)]>>
  /\ UNCHANGED seVars
  /\ UNCHANGED <<enc, vt, aln, pe, mt, mc, hp, fcmp, tie, ch>>

\* process_seeds, lines 676-678: find_candidates<n_specific_positions>
FcFind ==
  /\ fc # <<>>
  /\ fc[1].pc = "find"
  /\ \E f \in {find_candidates(n_sorting_positions - index_interval + 1,
                               fc[1].read_start, fc[1].genome, fc[1].slot,
                               Len(fc[1].read_start), fc[1].low, fc[1].high)} :
       fc' = <<[fc[1] EXCEPT !.pc = "found", !.low = f.low, !.high = f.high]>>
  /\ UNCHANGED seVars
  /\ UNCHANGED <<enc, vt, aln, pe, mt, mc, hp, fcmp, tie, ch>>

FcNext == FcSlot \/ FcFind

SpecFind == FcInit /\ [][FcNext]_vars

(***************************************************************************)
(* Properties of find_candidates (SpecFind).                               *)
(***************************************************************************)
\* C16: when find_candidates returns, every position left in [low, high)
\* agrees with the read in the designated bit at every offset p with
\* key_weight <= p < min(read_lim, seed_lim)
C16_RemainingAgree ==
  (fc # <<>> /\ fc[1].pc = "found") =>
    \A k \in (fc[1].low + 1)..fc[1].high :
      \A p \in key_weight..(Min(Len(fc[1].read_start),
                                n_sorting_positions - index_interval + 1) - 1) :
        genome_bit(fc[1].genome, fc[1].slot[k], p) = get_bit(fc[1].read_start[p + 1])

(***************************************************************************)
(* SpecTie: one se_result, reset and then offered the candidates of a read *)
(* in any order and any number of times, each always with the same diffs.  *)
(***************************************************************************)
MaxTiePos == 2     \* the candidates stand at 1..MaxTiePos
TieReadLen == 5    \* bases of the read; reset leaves diffs = 2

\* the strand codes of map_single_ended<t_rich>: the read and its reverse
\* complement
TieFlags == { get_strand_code("+", "t_rich"), get_strand_code("-", "t_rich") }

TieCandidates == (1..MaxTiePos) \X TieFlags

TieInit ==
  /\ tie \in { <<[res |-> se_result_new, diffs_of |-> f, offered |-> {},
                  pc |-> "reset"]>> :
                f \in [TieCandidates -> 0..invalid_hit_threshold(TieReadLen)] }
  /\ SeIdle /\ enc = <<>> /\ vt = <<>> /\ aln = <<>> /\ pe = <<>>
  /\ mt = <<>> /\ mc = <<>> /\ hp = <<>> /\ fcmp = <<>> /\ fc = <<>> /\ ch = <<>>

\* map_single_ended, line 954: res[i].reset(reads[i].size())
TieReset ==
  /\ tie # <<>>
  /\ tie[1].pc = "reset"
  /\ tie' = <<[tie[1] EXCEPT !.res = se_result_reset(@, TieReadLen), !.offered = {},
                             !.pc = "seeds"]>>
  /\ UNCHANGED seVars
  /\ UNCHANGED <<enc, vt, aln, pe, mt, mc, hp, fcmp, fc, ch>>

\* check_hits, line 603: res.update(*start_idx, diffs, strand_code)
TieUpdate ==
  /\ tie # <<>>
  /\ tie[1].pc = "seeds"
  /\ \E c \in TieCandidates :
       tie' = <<[tie[1] EXCEPT !.res = se_result_update(@, c[1], tie[1].diffs_of[c], c[2]),
                               !.offered = @ \cup {c}]>>
  /\ UNCHANGED seVars
  /\ UNCHANGED <<enc, vt, aln, pe, mt, mc, hp, fcmp, fc, ch>>

TieNext == TieReset \/ TieUpdate

SpecTie == TieInit /\ [][TieNext]_vars

(***************************************************************************)
(* Properties of se_result under repeated offers (SpecTie).                *)
(***************************************************************************)
\* the least diffs among the candidates offered
least_offered(t) ==
  CHOOSE d \in { t.diffs_of[c] : c \in t.offered } :
    \A c \in t.offered : d <= t.diffs_of[c]

\* C18: if two candidates offered since the reset stand at different
\* positions, both with the least diffs of all candidates offered, and that is
\* below the threshold reset leaves, then ambig() is true, also when a
\* position is offered under more than one strand code
C18_TieIsAmbiguous ==
  (tie # <<>> /\ tie[1].pc = "seeds") =>
    \A a \in tie[1].offered, b \in tie[1].offered :
      ( /\ a[1] # b[1]
        /\ tie[1].diffs_of[a] = least_offered(tie[1])
        /\ tie[1].diffs_of[b] = least_offered(tie[1])
        /\ least_offered(tie[1]) < invalid_hit_threshold(TieReadLen) )
      => se_result_ambig(tie[1].res)

(***************************************************************************)
(* Properties of pe_result over the two map_fragments of a fragment        *)
(* (SpecPe).                                                               *)
(***************************************************************************)
\* the pairs best_pair handed to bests.update for this fragment, as the
\* pe_element it built: with swap_ends, the case of an a_rich first
\* candidate, the ends change places
offered_pairs(s) ==
  { IF elem_is_a_rich(x.plus) THEN [r1 |-> x.minus, r2 |-> x.plus]
    ELSE [r1 |-> x.plus, r2 |-> x.minus] : x \in s.accepted }

same_positions(a, b) == a.r1.pos = b.r1.pos /\ a.r2.pos = b.r2.pos

\* C19: best and second_best never hold the same (r1.pos, r2.pos) pair of
\* accepted candidates, and two pairs at different positions that tie for the
\* least combined diffs make ambig() true
C19_NoPairTwice ==
  (pe # <<>> /\ pe[1].pc \in {"frag2", "align", "emit"}) =>
    /\ ~( /\ pe[1].bests.best \in offered_pairs(pe[1])
          /\ pe[1].bests.second_best \in offered_pairs(pe[1])
          /\ same_positions(pe[1].bests.best, pe[1].bests.second_best) )
    /\ \A a \in offered_pairs(pe[1]), b \in offered_pairs(pe[1]) :
         ( /\ ~same_positions(a, b)
           /\ pe_element_diffs(a) = pe_element_diffs(b)
           /\ \A c \in offered_pairs(pe[1]) : pe_element_diffs(a) <= pe_element_diffs(c) )
         => pe_result_ambig(pe[1].bests)

\* the cigars best_pair computed for the two mates of each pair it handed to
\* best.update (lines 1173-1177: cand_cig1 belongs to s1, cand_cig2 to s2, and
\* swap_ends says which of them is the first mate)
offered_cigars(s) ==
  { IF elem_is_a_rich(x.plus)
      THEN [r1 |-> x.minus, r2 |-> x.plus, cig1 |-> x.minus_cigar, cig2 |-> x.plus_cigar]
      ELSE [r1 |-> x.plus, r2 |-> x.minus, cig1 |-> x.plus_cigar, cig2 |-> x.minus_cigar] :
    x \in s.accepted }

\* format_pe has written the pair of the fragment (lines 364-397)
pair_written(s) ==
  s.pc = "load" /\ s.pe_map_type \in {"map_unique", "map_ambig"} /\ Len(s.out) = 2

\* C20: whenever format_pe writes the pair of a fragment whose two reads were
\* mapped, the cigar written with each mate is a cigar best_pair computed for
\* that mate at the position reported for the pair, also when allow_ambig is
\* on, the pair is ambiguous and align_se_candidates has run on the two cigar
\* slots before the output
C20_PairCigars ==
  (pe # <<>> /\ pair_written(pe[1]) /\ pe[1].reads1 # <<>> /\ pe[1].reads2 # <<>>) =>
    \E x \in offered_cigars(pe[1]) :
      /\ x.r1 = pe[1].bests.best.r1
      /\ x.r2 = pe[1].bests.best.r2
      /\ pe[1].out[1].cigar = x.cig1
      /\ pe[1].out[2].cigar = x.cig2

(***************************************************************************)
(* Properties of check_hits (SpecCmp).                                     *)
(***************************************************************************)
\* the base at position k of a genome held two bases in a byte
base_at(genome, k) ==
  IF k % 2 = 0 THEN genome[k \div 2 + 1] % 16 ELSE genome[k \div 2 + 1] \div 16

\* the read positions i with (read[i] & genome[pos + i]) == 0
full_mismatches(pread, genome, pos) ==
  Cardinality({ i \in 1..Len(pread) : BitAnd(pread[i], base_at(genome, pos + i - 1)) = 0 })

\* the genome bases that share a byte with the first or the last base of the
\* compared window
adjacent_bases(genome, pos, n) ==
  (IF pos % 2 = 1 THEN {base_at(genome, pos - 1)} ELSE {}) \cup
  (IF (pos + n) % 2 = 1 THEN {base_at(genome, pos + n)} ELSE {})

\* the elements of the two results that hold the candidate check_hits handed
\* to update
stored_by_check_hits(s) ==
  { e \in {s.res.best, s.res.second_best} \cup { s.cand.v[i] : i \in 1..s.cand.sz } :
      e.flags = CmpStrandCode }

\* C21: every diffs value check_hits stores in an se_result or in a
\* pe_candidates is at least the full number of read positions that mismatch
\* the genome at the candidate (it is never cut short by the cutoff), and it
\* is that number when the genome bases next to the compared window are not N
C21_StoredDiffsAreFull ==
  (fcmp # <<>> /\ fcmp[1].pc = "stored") =>
    \A e \in stored_by_check_hits(fcmp[1]) :
      /\ e.pos = fcmp[1].pos
      /\ e.diffs >= full_mismatches(fcmp[1].pread, fcmp[1].genome, fcmp[1].pos)
      /\ (0 \notin adjacent_bases(fcmp[1].genome, fcmp[1].pos, Len(fcmp[1].pread)))
           => e.diffs = full_mismatches(fcmp[1].pread, fcmp[1].genome, fcmp[1].pos)

\* a candidate at an odd position with a mismatch was stored in both results;
\* the window ends on the lower half of a byte, so both padding halves were
\* compared with a genome base
C21_Witness ==
  /\ fcmp # <<>>
  /\ fcmp[1].pc = "stored"
  /\ fcmp[1].pos % 2 = 1
  /\ Len(fcmp[1].pread) % 2 = 0
  /\ 0 \notin adjacent_bases(fcmp[1].genome, fcmp[1].pos, Len(fcmp[1].pread))
  /\ fcmp[1].res.best.flags = CmpStrandCode
  /\ fcmp[1].cand.sz = 2
  /\ fcmp[1].res.best.diffs = 1

(***************************************************************************)
(* Properties of align_se_candidates (SpecPe).                             *)
(***************************************************************************)
\* align_se_candidates took the result from before to after and left cig: if
\* best was a valid hit, best.diffs <= second_best.diffs holds and cig is the
\* cigar align_read computed for the element that ends up as best
aligned_in_order(before, after, cig, rd, pread, q_sz_max) ==
  valid_hit(before.best, Len(rd)) =>
    /\ after.best.diffs <= after.second_best.diffs
    /\ \E x \in {before.best, before.second_best} :
         \E a \in {align_read_se(x, rd, pread, PeGenome, q_sz_max)} :
           a.e = after.best /\ a.cigar = cig

\* C22: after align_se_candidates has run on a result whose best is a valid
\* hit, best.diffs <= second_best.diffs holds and the cigar is the one
\* computed for the element that ends up as best, for both results that
\* map_paired_ended hands to it
C22_AlignKeepsOrder ==
  [][(pe # <<>> /\ pe[1].pc = "align" /\ pe'[1].pc = "emit"
      /\ (~pe_result_valid(pe[1].bests, Len(pe[1].reads1), Len(pe[1].reads2))
          \/ pe_result_ambig(pe[1].bests))) =>
       /\ aligned_in_order(pe[1].res_se1, pe'[1].res_se1, pe'[1].cigar1, pe[1].reads1,
                           pe[1].pread1, pe[1].q_sz_max)
       /\ aligned_in_order(pe[1].res_se2, pe'[1].res_se2, pe'[1].cigar2, pe[1].reads2,
                           pe[1].pread2, pe[1].q_sz_max)]_vars

(***************************************************************************)
(* Properties of se_result::reset (Spec).                                  *)
(***************************************************************************)
\* the position and the diffs of the two elements of a result
pos_and_diffs(r) ==
  <<r.best.pos, r.best.diffs, r.second_best.pos, r.second_best.diffs>>

\* C23: reset(readlen) leaves a result that depends on readlen only: the
\* update that follows it gives the best and second_best it gives on a result
\* that was reset right after its construction, whatever the result held
\* before the reset
C23_ResetForgets ==
  (pc = "seeds" /\ offered.n = 1) =>
    pos_and_diffs(res) =
      pos_and_diffs(se_result_update(se_result_reset(se_result_new, Len(read)),
                                     offered.first.pos, offered.first.diffs,
                                     offered.first.flags))

(***************************************************************************)
(* Properties of a fragment without a pair and of pe_map_stats (SpecPe).   *)
(***************************************************************************)
\* C24: a pe_result to which no pair was handed since its reset is not valid,
\* also when both mates were skipped, and its fragment is neither written as
\* a pair nor counted as a uniquely mapped pair
C24_NoPairNotValid ==
  (pe # <<>> /\ pe[1].nfrags > 0 /\ pe[1].accepted = {}) =>
    /\ pe[1].pc \in {"align", "emit"} =>
         ~pe_result_valid(pe[1].bests, Len(pe[1].reads1), Len(pe[1].reads2))
    /\ pe[1].pc = "load" =>
         /\ \A k \in 1..Len(pe[1].out) : "read_paired" \notin pe[1].out[k].flags
         /\ pe[1].pe_stats.uniq_pairs = 0

\* C25: tot_pairs = uniq_pairs + ambig_pairs + unmapped_pairs after every
\* update of pe_map_stats, and an update increments unmapped_pairs exactly
\* for a pair that is not valid
C25_PairsAddUp ==
  /\ [](pe # <<>> =>
          pe[1].pe_stats.tot_pairs =
            pe[1].pe_stats.uniq_pairs + pe[1].pe_stats.ambig_pairs
              + pe[1].pe_stats.unmapped_pairs)
  /\ [][PeEmit =>
          (pe'[1].pe_stats.unmapped_pairs = pe[1].pe_stats.unmapped_pairs + 1)
            <=> ~pe_result_valid(pe'[1].bests, Len(pe[1].reads1), Len(pe[1].reads2))]_vars

(***************************************************************************)
(* SpecHits: check_hits over the hits of one seed, for an se_result and    *)
(* for a pe_candidates, each hit compared with the genome by full_compare. *)
(***************************************************************************)
HitsReadLen == 5      \* bases of the read; reset leaves diffs = 2
HitsGenomeLen == 30   \* bases of the genome
NHits == 23           \* the hits of the seed stand at 0..NHits - 1

\* pe_candidates::sure_ambig(seed_number)
pe_candidates_sure_ambig(c, seed_number) ==
  pe_candidates_full(c) /\ c.v[1].diffs <= seed_number

\* the read: A at every base
HitsRead == [k \in 1..HitsReadLen |-> 1]

\* the genomes: A everywhere but at the positions of changed, where C stands
HitsGenome(changed) == [k \in 1..HitsGenomeLen |-> IF (k - 1) \in changed THEN 2 ELSE 1]

\* no base, one base or two bases next to each other changed
HitsChanged ==
  {{}} \cup { {m} : m \in 0..(HitsGenomeLen - 1) }
       \cup { {m, m + 1} : m \in 0..(HitsGenomeLen - 2) }

\* the result check_hits is given
hits_result(s) == IF s.kind = "se" THEN s.res ELSE s.cand

\* res.sure_ambig(0) of the result check_hits is given
hits_sure_ambig(s) ==
  IF s.kind = "se" THEN sure_ambig(s.res, 0) ELSE pe_candidates_sure_ambig(s.cand, 0)

\* res.get_cutoff() of the result check_hits is given
hits_get_cutoff(s) ==
  IF s.kind = "se" THEN get_cutoff(s.res) ELSE pe_candidates_get_cutoff(s.cand)

ch_none == [op |-> "none", p |-> 0, d |-> 0]

ChInit ==
  /\ ch \in { <<[kind |-> k, forms |-> prep_for_seeds(HitsRead),
                 genome |-> pack_genome(HitsGenome(m)),
                 hits |-> [i \in 1..NHits |-> i - 1], idx |-> 0,
                 res |-> se_result_new, cand |-> pe_candidates_new,
                 compared |-> 0, last |-> ch_none, pc |-> "reset"]>> :
               k \in {"se", "pe"}, m \in HitsChanged }
  /\ SeIdle /\ enc = <<>> /\ vt = <<>> /\ aln = <<>> /\ pe = <<>>
  /\ mt = <<>> /\ mc = <<>> /\ hp = <<>> /\ fcmp = <<>> /\ fc = <<>> /\ tie = <<>>

\* map_single_ended, line 954, and map_fragments, lines 1219-1220:
\* res.reset(read.size())
ChReset ==
  /\ ch # <<>>
  /\ ch[1].pc = "reset"
  /\ ch' = <<[ch[1] EXCEPT !.res = se_result_reset(@, HitsReadLen),
                           !.cand = pe_candidates_reset(@, HitsReadLen),
                           !.last = [ch_none EXCEPT !.op = "reset"],
                           !.pc = "hits"]>>
  /\ UNCHANGED seVars
  /\ UNCHANGED <<enc, vt, aln, pe, mt, mc, hp, fcmp, fc, tie>>

\* the hit at start_idx compared and handed to update, lines 597-603
check_hit(s) ==
  LET p == s.hits[s.idx + 1]
      d == full_compare(hits_get_cutoff(s), form_for(s.forms, p),
                        genome_from(s.genome, p \div 2))
  IN [s EXCEPT !.res = IF s.kind = "se" THEN se_result_update(@, p, d, CmpStrandCode)
                       ELSE @,
               !.cand = IF s.kind = "pe" THEN pe_candidates_update(@, p, d, CmpStrandCode)
                        ELSE @,
               !.idx = @ + 1,
               !.compared = @ + 1,
               !.last = [op |-> "check_hits", p |-> p, d |-> d]]

\* check_hits, line 590: one turn of the loop
ChCheckHit ==
  /\ ch # <<>>
  /\ ch[1].pc = "hits"
  /\ ch[1].idx # Len(ch[1].hits) /\ ~hits_sure_ambig(ch[1])
  /\ ch' = <<check_hit(ch[1])>>
  /\ UNCHANGED seVars
  /\ UNCHANGED <<enc, vt, aln, pe, mt, mc, hp, fcmp, fc, tie>>

\* check_hits, line 590: the loop is left
ChLeave ==
  /\ ch # <<>>
  /\ ch[1].pc = "hits"
  /\ ~(ch[1].idx # Len(ch[1].hits) /\ ~hits_sure_ambig(ch[1]))
  /\ ch' = <<[ch[1] EXCEPT !.pc = "left", !.last = [ch_none EXCEPT !.op = "leave"]]>>
  /\ UNCHANGED seVars
  /\ UNCHANGED <<enc, vt, aln, pe, mt, mc, hp, fcmp, fc, tie>>

\* a later call res.update(p, d, s) with some diffs d >= 0, on a result for
\* which sure_ambig(0) holds
ChUpdate ==
  /\ ch # <<>>
  /\ ch[1].pc = "left"
  /\ hits_sure_ambig(ch[1])
  /\ \E p \in {0, NHits}, d \in 0..1 :
       ch' = <<[ch[1] EXCEPT
                  !.res = IF ch[1].kind = "se"
                            THEN se_result_update(@, p, d, CmpStrandCode) ELSE @,
                  !.cand = IF ch[1].kind = "pe"
                             THEN pe_candidates_update(@, p, d, CmpStrandCode) ELSE @,
                  !.last = [op |-> "update", p |-> p, d |-> d]]>>
  /\ UNCHANGED seVars
  /\ UNCHANGED <<enc, vt, aln, pe, mt, mc, hp, fcmp, fc, tie>>

ChNext == ChReset \/ ChCheckHit \/ ChLeave \/ ChUpdate

SpecHits == ChInit /\ [][ChNext]_vars

(***************************************************************************)
(* Properties of the sure_ambig shortcut (SpecHits).                       *)
(***************************************************************************)
\* the two top candidates stand at different positions, both with diffs 0;
\* for a pe_candidates, the heap is full and its largest diffs is 0
two_exact_hits(s) ==
  IF s.kind = "se"
    THEN /\ s.res.best.pos # s.res.second_best.pos
         /\ s.res.best.diffs = 0 /\ s.res.second_best.diffs = 0
    ELSE /\ s.cand.sz = max_size
         /\ \A k \in 1..s.cand.sz : s.cand.v[k].diffs <= 0
         /\ \E k \in 1..s.cand.sz : s.cand.v[k].diffs = 0

\* C26: once an se_result holds two candidates at different positions, both
\* with diffs 0, or a pe_candidates is full with largest diffs 0, sure_ambig(0)
\* holds, no update with diffs >= 0 changes the result and check_hits compares
\* no further hit for it
C26_SureAmbigFrozen ==
  /\ []((ch # <<>> /\ ch[1].pc # "reset") =>
          (two_exact_hits(ch[1]) <=> hits_sure_ambig(ch[1])))
  /\ [][(ch # <<>> /\ ch[1].pc # "reset" /\ two_exact_hits(ch[1])) =>
          /\ hits_result(ch'[1]) = hits_result(ch[1])
          /\ ch'[1].compared = ch[1].compared]_vars

\* check_hits has left the loop on a full heap of exact hits before the last
\* hit, and update was called on it afterwards
C26_Witness ==
  /\ ch # <<>>
  /\ ch[1].kind = "pe"
  /\ ch[1].pc = "left"
  /\ ch[1].idx < Len(ch[1].hits)
  /\ two_exact_hits(ch[1])
  /\ ch[1].last.op = "update"
  /\ ch[1].last.p = NHits
  /\ ch[1].last.d = 0

(***************************************************************************)
(* Properties of the score of an alignment (SpecAln).                      *)
(***************************************************************************)
\* the operations of the uncompressed CIGAR u walked from base qi of the query
\* and position ti of the genome: the matches, mismatches, insertions and
\* deletions met
RECURSIVE along_cigar(_, _, _, _, _)
along_cigar(u, query, genome, qi, ti) ==
  IF u = <<>> THEN [matches |-> 0, mismatches |-> 0, insertions |-> 0, deletions |-> 0]
  ELSE IF u[1] = "S" THEN along_cigar(Tail(u), query, genome, qi + 1, ti)
  ELSE IF u[1] = "I"
    THEN [along_cigar(Tail(u), query, genome, qi + 1, ti) EXCEPT !.insertions = @ + 1]
  ELSE IF u[1] = "D"
    THEN [along_cigar(Tail(u), query, genome, qi, ti + 1) EXCEPT !.deletions = @ + 1]
  ELSE IF the_comp(query[qi + 1], genome[ti + 1])
    THEN [along_cigar(Tail(u), query, genome, qi + 1, ti + 1) EXCEPT !.mismatches = @ + 1]
  ELSE [along_cigar(Tail(u), query, genome, qi + 1, ti + 1) EXCEPT !.matches = @ + 1]

\* the counts along the alignment align returned
counts_of(a) == along_cigar(a.out.ucigar, a.query, a.genome, 0, a.out.t_pos)

\* C27: for an alignment of len >= min_aligned_length the score is matches -
\* mismatches - insertions - deletions along the CIGAR from the returned
\* position, and edit_distance is mismatches + insertions + deletions; for a
\* shorter one edit_distance is the largest score_t
C27_ScoreAlongCigar ==
  (aln # <<>> /\ aln[1].done /\ aln[1].out.score > 0) =>
    IF aln[1].out.len >= min_aligned_length
      THEN /\ aln[1].out.score =
                counts_of(aln[1]).matches - counts_of(aln[1]).mismatches
                  - counts_of(aln[1]).insertions - counts_of(aln[1]).deletions
           /\ edit_distance(aln[1].out.score, aln[1].out.len, aln[1].out.cigar) =
                counts_of(aln[1]).mismatches + counts_of(aln[1]).insertions
                  + counts_of(aln[1]).deletions
      ELSE edit_distance(aln[1].out.score, aln[1].out.len, aln[1].out.cigar) = ScoreMax

\* an alignment long enough with a deletion in it
C27_Witness ==
  /\ aln # <<>>
  /\ aln[1].done
  /\ aln[1].out.len >= min_aligned_length
  /\ counts_of(aln[1]).deletions > 0
  /\ edit_distance(aln[1].out.score, aln[1].out.len, aln[1].out.cigar) > 0

(***************************************************************************)
(* Properties of the range find_candidates leaves (SpecFind).              *)
(***************************************************************************)
\* position x has the designated bits of the read at every offset p with
\* key_weight <= p < min(read_lim, seed_lim)
true_seed_match(s, x) ==
  \A p \in key_weight..(Min(Len(s.read_start), n_sorting_positions - index_interval + 1) - 1) :
    genome_bit(s.genome, x, p) = get_bit(s.read_start[p + 1])

\* C28: every position of the slot find_candidates was given that has the
\* read's designated bits at all offsets key_weight <= p < min(read_lim,
\* seed_lim) is inside [low, high) when find_candidates returns
C28_NoMatchDiscarded ==
  (fc # <<>> /\ fc[1].pc = "found") =>
    \A k \in 1..Len(fc[1].slot) :
      true_seed_match(fc[1], fc[1].slot[k]) => (fc[1].low < k /\ k <= fc[1].high)

\* find_candidates has narrowed the slot at both ends and left a position
\* with the read's bits in it
C28_Witness ==
  /\ fc # <<>>
  /\ fc[1].pc = "found"
  /\ fc[1].low > 0
  /\ fc[1].high < Len(fc[1].slot)
  /\ \E k \in (fc[1].low + 1)..fc[1].high : true_seed_match(fc[1], fc[1].slot[k])

(***************************************************************************)
(* Properties of the reads over the workers (SpecMt).                      *)
(***************************************************************************)
\* how often read k stands in the batches loaded so far
times_loaded(m, k) ==
  Cardinality({ <<b, j>> \in (1..Len(m.batches)) \X (1..batch_size) :
                  j <= Len(m.batches[b]) /\ m.batches[b][j] = k })

\* how often se_stats.update was called for read k
times_counted(m, k) == Cardinality({ j \in 1..Len(m.stats_log) : m.stats_log[j] = k })

\* every worker has left the while loop
all_finished(m) == \A w \in Workers : m.pc[w] = "done"

\* C29: every read taken from the stream is in exactly one batch of one
\* worker and is counted at most once; when all workers have left the loop the
\* stream is exhausted, every read was counted once, tot_rds is the number of
\* reads of the input and tot_rds = uniq_rds + ambig_rds + unmapped_rds
C29_EveryReadOnce ==
  mt # <<>> =>
    /\ \A k \in 1..mt[1].taken : times_loaded(mt[1], k) = 1
    /\ \A k \in 1..(mt[1].taken + mt[1].remaining) : times_counted(mt[1], k) <= 1
    /\ mt[1].se_stats.tot_rds = Len(mt[1].stats_log)
    /\ all_finished(mt[1]) =>
         /\ mt[1].remaining = 0
         /\ \A k \in 1..mt[1].taken : times_counted(mt[1], k) = 1
         /\ mt[1].se_stats.tot_rds = mt[1].taken
         /\ mt[1].se_stats.tot_rds =
              mt[1].se_stats.uniq_rds + mt[1].se_stats.ambig_rds
                + mt[1].se_stats.unmapped_rds

\* all workers have left the loop after two batches were loaded, the second
\* of them written first, and the skipped read was counted
C29_Witness ==
  /\ mt # <<>>
  /\ all_finished(mt[1])
  /\ mt[1].batches = <<<<1, 2>>, <<3>>>>
  /\ mt[1].out = <<3, 1, 2>>
  /\ mt[1].se_stats.skipped_rds = 1

(***************************************************************************)
(* SpecMtFair: the workers of SpecMt, each scheduled again and again: a    *)
(* worker that can take its next step takes it.                            *)
(***************************************************************************)
\* the next step of worker w
MtStep(w) ==
  \/ MtGood(w)
  \/ MtSetReadLock(w)
  \/ MtLoadReads(w)
  \/ MtPeek(w)
  \/ MtUnsetReadLock(w)
  \/ MtMap(w)
  \/ MtSetWriteLock(w)
  \/ MtEmit(w)
  \/ MtUnsetWriteLock(w)

SpecMtFair == MtInit /\ [][MtNext]_vars /\ \A w \in Workers : WF_vars(MtStep(w))

(***************************************************************************)
(* Properties of the workers under fair scheduling (SpecMtFair).           *)
(***************************************************************************)
\* worker w is in a turn of the loop with a batch without reads
in_empty_batch(m, w) ==
  m.pc[w] \in {"peek", "unset_read_lock", "map", "set_write_lock", "emit"} /\ m.reads[w] = <<>>

\* C30: every worker eventually leaves the while loop; no worker holds
\* read_lock and write_lock together; a lock taken is given back; a worker
\* waiting for a lock gets it; a worker that finds the stream exhausted has an
\* empty batch and leaves the loop after it
C30_WorkersFinish ==
  /\ <>[](mt # <<>> /\ all_finished(mt[1]))
  /\ [](mt # <<>> => \A w \in Workers : ~(mt[1].read_lock = w /\ mt[1].write_lock = w))
  /\ [][\A w \in Workers :
          (MtLoadReads(w) /\ ~mt[1].good) => mt'[1].reads[w] = <<>>]_vars
  /\ \A w \in Workers :
       /\ (mt # <<>> /\ mt[1].read_lock = w) ~> (mt[1].read_lock = NoWorker)
       /\ (mt # <<>> /\ mt[1].write_lock = w) ~> (mt[1].write_lock = NoWorker)
       /\ (mt # <<>> /\ mt[1].pc[w] = "set_read_lock") ~> (mt[1].read_lock = w)
       /\ (mt # <<>> /\ mt[1].pc[w] = "set_write_lock") ~> (mt[1].write_lock = w)
       /\ (mt # <<>> /\ in_empty_batch(mt[1], w)) ~> (mt[1].pc[w] = "done")

\* a worker that found the stream exhausted holds write_lock for its empty
\* batch; the other worker, which loaded the last reads, has left the loop
C30_Witness ==
  /\ mt # <<>>
  /\ mt[1].remaining = 0
  /\ \E w \in Workers, v \in Workers :
       /\ w # v
       /\ mt[1].pc[w] = "emit" /\ mt[1].reads[w] = <<>> /\ mt[1].write_lock = w
       /\ mt[1].pc[v] = "done" /\ mt[1].reads[v] # <<>>
====
